---- MODULE Spec2Model ----
(***************************************************************************)
(* Model of scrapper_aliexpress.py: the resolvers that build one product   *)
(* record (title, images, description, specs, variations) from a rendered  *)
(* page.  Python strings are TLA+ strings; a character is a string of      *)
(* length one.  Python's None and non-string JSON values are the marker    *)
(* strings NoneV and NumV, which no page text ever equals.                 *)
(***************************************************************************)
EXTENDS Naturals, Integers, Sequences, FiniteSets, TLC

VARIABLES
    cpc, cName, cResult,      \* prettify_color: position, argument, return value
    tpc, tIn, tResult,        \* pick_title: position, arguments (dom_html, g), return value
    spc, sIn, sResult,        \* collect_specs_from_dom: position, dom_html, return value
    dpc,                      \* pick_description_and_specs: position
    dIn,                      \*   dom_html and globals_data as the function reads them
    desc_hits,                \*   the list _on_response appends to
    candidate_urls,           \*   local candidate_urls
    fetchLog,                 \*   the URLs requested so far, in order
    lastResp,                 \*   what the latest request came back with
    desc_text, desc_imgs,     \*   locals desc_text, desc_imgs
    dResult,                  \*   return value
    ipc,                      \* pick_images and the image union: position
    iIn,                      \*   dom_html and g as pick_images reads them, and desc_imgs
    imgs,                     \*   local imgs of pick_images
    images_main,              \*   its return value
    all_images,               \*   the images of the record
    vpc,                      \* collect_variations_human_labels: position
    vIn,                      \*   the group containers of the page, with their options
    gi, oi,                   \*   index of the container g and of the option o at hand
    group_name,               \*   local name
    values, seen_labels,      \*   locals values, seen_labels
    results,                  \*   local results
    clicks,                   \*   the labels resolved so far, in click order
    lastOption,               \*   what the latest option's iteration read and did
    vErr,                     \*   the call that raised out of the function
    vResult,                  \*   return value
    rpc,                      \* scrape_text_fields: position
    rIn,                      \*   the page behind the url
    globals_data,             \*   the probes get_global_jsons kept
    rErr,                     \*   the stage that raised out of the function
    result,                   \*   return value
    jpc,                      \* get_global_jsons: position
    jIn,                      \*   what page.evaluate gives for each probe
    probed,                   \*   the probes evaluated so far, in order
    jData,                    \*   local data, returned at the end
    upc,                      \* try_pick_desc_url_from_globals: position
    uIn,                      \*   globals_data: the dicts by identity, and the blobs
    bi,                       \*   how many keys the outer loop has taken
    uStack, uSeen,            \*   locals stack, seen
    visits,                   \*   the objects examined (past the seen test), in order
    uResult                   \*   return value

colorVars == <<cpc, cName, cResult>>
titleVars == <<tpc, tIn, tResult>>
specsVars == <<spc, sIn, sResult>>
descVars == <<dpc, dIn, desc_hits, candidate_urls, fetchLog, lastResp, desc_text, desc_imgs, dResult>>
imageVars == <<ipc, iIn, imgs, images_main, all_images>>
varVars == <<vpc, vIn, gi, oi, group_name, values, seen_labels, results, clicks, lastOption,
             vErr, vResult>>
scrapeVars == <<rpc, rIn, globals_data, rErr, result>>
globalsVars == <<jpc, jIn, probed, jData>>
searchVars == <<upc, uIn, bi, uStack, uSeen, visits, uResult>>
vars == <<colorVars, titleVars, specsVars, descVars, imageVars, varVars, scrapeVars,
          globalsVars, searchVars>>

-----------------------------------------------------------------------------
(* Python values *)

NoneV == "<None>"
NumV == "<num>"
\* an element that is there but lacks the attribute read (el.get(...) is None)
NoAttrV == "<noattr>"
NonStr == {NoneV, NumV, NoAttrV}

\* isinstance(v, str)
IsStr(v) == v \notin NonStr

-----------------------------------------------------------------------------
(* str primitives *)

Char(s, i) == SubSeq(s, i, i)

MinOf(S) == CHOOSE x \in S : \A y \in S : x <= y
MaxOf(S) == CHOOSE x \in S : \A y \in S : x >= y

IsSpace(c) == c \in {" ", "\t", "\n", "\r"}

UpperChars == "ABCDEFGHIJKLMNOPQRSTUVWXYZ"
LowerChars == "abcdefghijklmnopqrstuvwxyz"
DigitChars == "0123456789"

CharsOf(s) == {Char(s, i) : i \in 1..Len(s)}
UpperSet == CharsOf(UpperChars)
LowerSet == CharsOf(LowerChars)
DigitSet == CharsOf(DigitChars)

IsUpper(c) == c \in UpperSet
IsLowerLetter(c) == c \in LowerSet
IsDigit(c) == c \in DigitSet

LowerMap ==
    [c \in UpperSet |->
        Char(LowerChars, CHOOSE i \in 1..Len(UpperChars) : Char(UpperChars, i) = c)]

\* \w of the re module, on the characters the model uses
IsWordChar(c) == IsUpper(c) \/ IsLowerLetter(c) \/ IsDigit(c) \/ c = "_"

LowerChar(c) == IF IsUpper(c) THEN LowerMap[c] ELSE c

RECURSIVE LowerFrom(_, _)
LowerFrom(s, i) ==
    IF i > Len(s) THEN "" ELSE LowerChar(Char(s, i)) \o LowerFrom(s, i + 1)

\* str.lower()
Lower(s) == LowerFrom(s, 1)

\* index of the first character from i on that is no whitespace, Len(s) + 1 if none
RECURSIVE FirstNonSpace(_, _)
FirstNonSpace(s, i) ==
    IF i > Len(s) \/ ~IsSpace(Char(s, i)) THEN i ELSE FirstNonSpace(s, i + 1)

\* index of the last character up to i that is no whitespace, 0 if none
RECURSIVE LastNonSpace(_, _)
LastNonSpace(s, i) ==
    IF i < 1 \/ ~IsSpace(Char(s, i)) THEN i ELSE LastNonSpace(s, i - 1)

\* str.strip()
Strip(s) == SubSeq(s, FirstNonSpace(s, 1), LastNonSpace(s, Len(s)))

\* k in s
Contains(s, k) ==
    \E i \in 1..(Len(s) + 1) :
        i + Len(k) - 1 <= Len(s) /\ SubSeq(s, i, i + Len(k) - 1) = k

\* s.startswith(k)
StartsWith(s, k) == Len(k) <= Len(s) /\ SubSeq(s, 1, Len(k)) = k

\* s.endswith(k)
EndsWith(s, k) == Len(k) <= Len(s) /\ SubSeq(s, Len(s) - Len(k) + 1, Len(s)) = k

\* re.search(r"(w1|w2|...)\b", s): one of the words, ending at a word boundary
SearchWordEnd(s, words) ==
    \E w \in words : \E i \in 1..Len(s) :
        LET j == i + Len(w) - 1
        IN  /\ j <= Len(s)
            /\ SubSeq(s, i, j) = w
            /\ (j = Len(s) \/ ~IsWordChar(Char(s, j + 1)))

-----------------------------------------------------------------------------
(* sequences *)

SeqsUpTo(S, n) == UNION {[1..k -> S] : k \in 0..n}

RECURSIVE SeqContains(_, _)
SeqContains(seq, x) ==
    IF seq = <<>> THEN FALSE
    ELSE Head(seq) = x \/ SeqContains(Tail(seq), x)

\* the loop of unique(seq): out after the items of seq, starting from acc.
\* An item is kept when it is truthy and not seen before.
RECURSIVE UniqueFrom(_, _)
UniqueFrom(seq, acc) ==
    IF seq = <<>> THEN acc
    ELSE UniqueFrom(Tail(seq),
                    IF Head(seq) # "" /\ ~SeqContains(acc, Head(seq))
                    THEN Append(acc, Head(seq)) ELSE acc)

unique(seq) == UniqueFrom(seq, <<>>)

\* the function f with its values computed once, for every element of its domain
Table(f) == f @@ <<>>

RECURSIVE FlattenSeq(_)
FlattenSeq(seqs) ==
    IF seqs = <<>> THEN <<>> ELSE Head(seqs) \o FlattenSeq(Tail(seqs))

-----------------------------------------------------------------------------
(* is_product_image *)

good_host == {"ae01.alicdn.com", "aliexpress-media.com", "alicdn.com"}

AllDigits(s) == \A i \in 1..Len(s) : IsDigit(Char(s, i))

\* (?:[_.].*)?$ from position j: the string ends there, or goes on with _ or .
SuffixOk(u, j) == j > Len(u) \/ Char(u, j) \in {"_", "."}

\* one of the extensions (re.I) at position i, followed by the optional suffix
ExtAt(u, i, exts) ==
    \E e \in exts :
        /\ i + Len(e) - 1 <= Len(u)
        /\ Lower(SubSeq(u, i, i + Len(e) - 1)) = e
        /\ SuffixOk(u, i + Len(e))

\* small_pat.search(u): /NNxNN.ext or /NNNxNNN.ext (2 or 3 digits each side)
small_pat(u) ==
    \E i \in 1..Len(u) : \E a \in 2..3 : \E b \in 2..3 :
        /\ i + a + b + 2 <= Len(u)
        /\ Char(u, i) = "/"
        /\ AllDigits(SubSeq(u, i + 1, i + a))
        /\ Lower(Char(u, i + a + 1)) = "x"
        /\ AllDigits(SubSeq(u, i + a + 2, i + a + b + 1))
        /\ Char(u, i + a + b + 2) = "."
        /\ ExtAt(u, i + a + b + 3, {"png", "jpg", "jpeg", "avif"})

\* re.search(r"\.(jpg|jpeg|png|webp|avif)(?:[_.].*)?$", u, re.I)
HasImageExt(u) ==
    \E i \in 1..Len(u) :
        Char(u, i) = "." /\ ExtAt(u, i + 1, {"jpg", "jpeg", "png", "webp", "avif"})

\* if u.startswith("//"): u = "https:" + u
AddScheme(u) == IF StartsWith(u, "//") THEN "https:" \o u ELSE u

\* is_product_image(url) for a str or None
is_product_image(url) ==
    IF url = NoneV \/ url = "" \/ Contains(url, "bat.bing.com") THEN FALSE
    ELSE LET u == AddScheme(Strip(url))
         IN  /\ \E h \in good_host : Contains(u, h)
             /\ ~small_pat(u)
             /\ HasImageExt(u)

ImgA == "https://ae01.alicdn.com/kf/a.jpg"
ImgB == "//ae01.alicdn.com/kf/b.png_640x640.png"
ImgC == "https://img.aliexpress-media.com/c.WEBP"
ImgD == "https://ae01.alicdn.com/kf/d.jpg"
ImgE == "//ae01.alicdn.com/kf/e.jpeg"
TinyImg == "https://ae01.alicdn.com/kf/50x50.png"
IconImg == "https://ae01.alicdn.com/kf/154X64.PNG_.webp"
OtherHostImg == "https://cdn.example.com/e.jpg"
TrackerImg == "https://bat.bing.com/alicdn.com/p.jpg"
NoExtImg == "https://ae01.alicdn.com/kf/f.gif"

\* the URLs of the pages of the model, as written and with the scheme added
PageUrls ==
    LET written == {ImgA, ImgB, ImgC, ImgD, ImgE, TinyImg, IconImg, OtherHostImg,
                    TrackerImg, NoExtImg}
    IN  written \cup {AddScheme(u) : u \in written}

\* is_product_image on each of them, computed once
ProductImageOf == Table([u \in PageUrls |-> is_product_image(u)])

\* the call is_product_image(u)
IsProductImage(u) == IF u \in PageUrls THEN ProductImageOf[u] ELSE is_product_image(u)

\* [u for u in seq if is_product_image(u)]
RECURSIVE ProductImagesOf(_)
ProductImagesOf(seq) ==
    IF seq = <<>> THEN <<>>
    ELSE (IF IsProductImage(Head(seq)) THEN <<Head(seq)>> ELSE <<>>)
         \o ProductImagesOf(Tail(seq))

-----------------------------------------------------------------------------
(* prettify_color *)

\* the replacements dict, in insertion order
replacements == <<
    <<"white", "branca">>,
    <<"black", "preta">>,
    <<"blue", "azul">>,
    <<"red", "vermelha">>,
    <<"pink", "rosa">>,
    <<"green", "verde">>,
    <<"yellow", "amarela">>,
    <<"purple", "roxa">>,
    <<"orange", "laranja">>,
    <<"gray", "cinza">>,
    <<"grey", "cinza">>,
    <<"silver", "prata">>,
    <<"gold", "dourada">>,
    <<"beige", "bege">>,
    <<"brown", "marrom">>,
    <<"transparent", "transparente">> >>

\* the five re.search fallbacks, in order
looseColors == <<
    <<{"white", "branco", "branca"}, "branca">>,
    <<{"black", "preto", "preta"}, "preta">>,
    <<{"blue", "azul"}, "azul">>,
    <<{"pink", "rosa"}, "rosa">>,
    <<{"red", "vermelho", "vermelha"}, "vermelha">> >>

\* the condition of the for loop's if, for the dict item k
LexiconHit(s, k) == s = k \/ EndsWith(s, " " \o k) \/ Contains(s, k)

\* the length-tightness slack of the loop's return
TightSlack == 2

\* the loop's return for the first dict item that hits
LexiconReturn(s, i) ==
    IF Len(s) <= Len(replacements[i][1]) + TightSlack THEN replacements[i][2] ELSE s

prettify_color(name) ==
    LET s == Lower(Strip(name))
        hits == {i \in 1..Len(replacements) : LexiconHit(s, replacements[i][1])}
        loose == {i \in 1..Len(looseColors) : SearchWordEnd(s, looseColors[i][1])}
    IN  IF hits # {} THEN LexiconReturn(s, MinOf(hits))
        ELSE IF loose # {} THEN looseColors[MinOf(loose)][2]
        ELSE Strip(name)

\* labels the normalizer is run on: a colour word or another word, bare or
\* inside a longer label, in several letter cases and paddings
ColorWords == {"white", "White", "RED", "Green", "grey", "Gold", "transparent",
               "branco", "Preta", "azul", "rosa", "Vermelho", "Navy", "MS123", "redwood"}
ColorPrefixes == {"", " ", "Dark ", "Midnight Forest "}
ColorSuffixes == {"", "  ", "s", "-1", " Special Edition"}
ColorLabels == {p \o w \o x : p \in ColorPrefixes, w \in ColorWords, x \in ColorSuffixes}

ColorStart == cpc = "call" /\ cName \in ColorLabels /\ cResult = NoneV
ColorIdle == cpc = "idle" /\ cName = "" /\ cResult = NoneV

\* one call prettify_color(cName)
PrettifyColor ==
    /\ cpc = "call"
    /\ cResult' = prettify_color(cName)
    /\ cpc' = "done"
    /\ UNCHANGED <<cName, titleVars, specsVars, descVars, imageVars, varVars, scrapeVars, globalsVars, searchVars>>

-----------------------------------------------------------------------------
(* pick_title *)

\* Number of title sources a page fills at most
MaxTitleSources == 2

\* Where d = rp.get("data") or rp.get("dataLayer") or rp comes from:
\*   "absent"     g has no runParams entry, or it is no dict
\*   "data"       rp["data"] is a non-empty dict
\*   "dataLayer"  rp["data"] is falsy and rp["dataLayer"] a non-empty dict
\*   "self"       both are falsy, d is rp
\*   "dataOther"  rp["data"] is truthy and no dict (d is no dict)
RpShapes == {"absent", "data", "dataLayer", "self", "dataOther"}

\* The places pick_title reads, by name: fields of d, of d["pageModule"], of
\* the DCData dict, and the first element of each DOM selector
DSlots == {"d.title", "d.subject", "d.name", "d.prodName"}
PmSlots == {"pm.title", "pm.seoTitle"}
DcSlots == {"dc.title", "dc.name", "dc.subject"}
MetaSlots == {"og:title", "twitter:title", "meta:title"}
TextSlots == {"title", "h1"}
TitleSlots == DSlots \cup PmSlots \cup DcSlots \cup MetaSlots \cup TextSlots

TitleStrs == {"Lamp", "  Desk lamp ", " \n", ""}

\* what a filled slot may hold: JSON fields any value, a meta element a content
\* attribute or none, a title or h1 element its text
SlotValues(slot) ==
    IF slot \in MetaSlots THEN TitleStrs \cup {NoAttrV}
    ELSE IF slot \in TextSlots THEN TitleStrs
    ELSE TitleStrs \cup {NumV}

\* slot contents with at most max slots filled; NoneV is a missing key or a
\* selector that matches nothing
TitleFills(max) ==
    UNION { { [s \in TitleSlots |-> IF s \in S THEN f[s] ELSE NoneV] :
                f \in {h \in [S -> TitleStrs \cup {NumV, NoAttrV}] :
                            \A s \in S : h[s] \in SlotValues(s)} } :
            S \in {T \in SUBSET TitleSlots : Cardinality(T) <= max} }

TitleInputs(max) ==
    [rp : RpShapes, pmIsDict : BOOLEAN, dcIsDict : BOOLEAN, f : TitleFills(max)]

\* isinstance(v, str) and v.strip()
NonBlankStr(v) == IsStr(v) /\ Strip(v) # ""

\* a for loop that returns v.strip() for the first value that passes the test
RECURSIVE FirstNonBlank(_)
FirstNonBlank(vals) ==
    IF vals = <<>> THEN NoneV
    ELSE IF NonBlankStr(Head(vals)) THEN Strip(Head(vals))
    ELSE FirstNonBlank(Tail(vals))

\* isinstance(rp, dict) and isinstance(d, dict)
DIsDict(in) == in.rp \in {"data", "dataLayer", "self"}

\* lines 105-117: the runParams block
TitleFromRunParams(in) ==
    IF ~DIsDict(in) THEN NoneV
    ELSE LET own == FirstNonBlank(<<in.f["d.title"], in.f["d.subject"],
                                    in.f["d.name"], in.f["d.prodName"]>>)
         IN  IF own # NoneV THEN own
             ELSE IF in.pmIsDict
                  THEN FirstNonBlank(<<in.f["pm.title"], in.f["pm.seoTitle"]>>)
                  ELSE NoneV

\* lines 118-125: the DCData block
TitleFromDCData(in) ==
    IF in.dcIsDict
    THEN FirstNonBlank(<<in.f["dc.title"], in.f["dc.name"], in.f["dc.subject"]>>)
    ELSE NoneV

\* lines 128-138: meta og:title, twitter:title, title, then the title element
TitleFromHead(in) ==
    FirstNonBlank(<<in.f["og:title"], in.f["twitter:title"], in.f["meta:title"],
                    in.f["title"]>>)

\* lines 139-140: h1.get_text(strip=True) if h1 else None
TitleFromH1(in) == IF in.f["h1"] = NoneV THEN NoneV ELSE Strip(in.f["h1"])

pick_title(in) ==
    IF TitleFromRunParams(in) # NoneV THEN TitleFromRunParams(in)
    ELSE IF TitleFromDCData(in) # NoneV THEN TitleFromDCData(in)
    ELSE IF TitleFromHead(in) # NoneV THEN TitleFromHead(in)
    ELSE TitleFromH1(in)

TitleStart == tpc = "call" /\ tIn \in TitleInputs(MaxTitleSources) /\ tResult = NoneV
TitleIdle ==
    /\ tpc = "idle"
    /\ tIn = [rp |-> "absent", pmIsDict |-> FALSE, dcIsDict |-> FALSE,
              f |-> [s \in TitleSlots |-> NoneV]]
    /\ tResult = NoneV

\* one call pick_title(dom_html, g)
PickTitle ==
    /\ tpc = "call"
    /\ tResult' = pick_title(tIn)
    /\ tpc' = "done"
    /\ UNCHANGED <<tIn, colorVars, specsVars, descVars, imageVars, varVars, scrapeVars, globalsVars, searchVars>>

-----------------------------------------------------------------------------
(* collect_specs_from_dom *)

\* Number of specification--title-- / specification--desc-- elements, of list
\* items, and of span/div elements in a list item, at most
MaxSpecNodes == 3

SpecTitleTexts == {"Brand", " Size ", ""}
SpecDescTexts == {"Acme", ""}
SpecLiTexts == {"Brand", "Acme", " "}

\* the #nav-specification container as the function reads it: whether it is
\* there, the texts of its title and desc elements in document order, and for
\* each li the texts of its span/div elements in document order.  A page
\* either uses the specification-- classes or is a plain list.
SpecsInputs ==
    [root : BOOLEAN,
     titles : SeqsUpTo(SpecTitleTexts, MaxSpecNodes),
     descs : SeqsUpTo(SpecDescTexts, MaxSpecNodes),
     lis : {<<>>, <<<<"Brand", "Acme">>>>}]
    \cup
    [root : {TRUE},
     titles : {<<>>},
     descs : {<<>>},
     lis : SeqsUpTo(SeqsUpTo(SpecLiTexts, MaxSpecNodes), 2)]

\* f"{k}: {v}"
SpecLine(k, v) == k \o ": " \o v

\* lines 305-309: zip(title_nodes, desc_nodes), pairs with both texts non-empty
RECURSIVE ZipSpecs(_, _)
ZipSpecs(titles, descs) ==
    IF titles = <<>> \/ descs = <<>> THEN <<>>
    ELSE LET k == Strip(Head(titles))
             v == Strip(Head(descs))
         IN  (IF k # "" /\ v # "" THEN <<SpecLine(k, v)>> ELSE <<>>)
             \o ZipSpecs(Tail(titles), Tail(descs))

\* lines 315-319: the non-empty stripped texts of one li
RECURSIVE LiTexts(_)
LiTexts(raw) ==
    IF raw = <<>> THEN <<>>
    ELSE (IF Strip(Head(raw)) # "" THEN <<Strip(Head(raw))>> ELSE <<>>)
         \o LiTexts(Tail(raw))

\* lines 320-325: for i in range(0, len(texts) - 1, 2), from index i (0-based)
RECURSIVE PairTexts(_, _)
PairTexts(texts, i) ==
    IF i >= Len(texts) - 1 THEN <<>>
    ELSE LET k == texts[i + 1]
             v == texts[i + 2]
         IN  (IF k # "" /\ v # "" THEN <<SpecLine(k, v)>> ELSE <<>>)
             \o PairTexts(texts, i + 2)

\* lines 314-325: the fallback over every li
RECURSIVE LiSpecs(_)
LiSpecs(lis) ==
    IF lis = <<>> THEN <<>>
    ELSE (IF Len(LiTexts(Head(lis))) >= 2 THEN PairTexts(LiTexts(Head(lis)), 0) ELSE <<>>)
         \o LiSpecs(Tail(lis))

\* lines 304-311: the value returned by the first strategy
PrimarySpecs(in) == ZipSpecs(in.titles, in.descs)

\* whether the first strategy returns (line 310)
PrimaryReturns(in) == in.titles # <<>> /\ in.descs # <<>> /\ PrimarySpecs(in) # <<>>

collect_specs_from_dom(in) ==
    IF ~in.root THEN <<>>
    ELSE IF PrimaryReturns(in) THEN PrimarySpecs(in)
    ELSE unique(LiSpecs(in.lis))

SpecsStart == spc = "call" /\ sIn \in SpecsInputs /\ sResult = <<>>
SpecsIdle ==
    /\ spc = "idle"
    /\ sIn = [root |-> FALSE, titles |-> <<>>, descs |-> <<>>, lis |-> <<>>]
    /\ sResult = <<>>

\* one call collect_specs_from_dom(dom_html)
CollectSpecs ==
    /\ spc = "call"
    /\ sResult' = collect_specs_from_dom(sIn)
    /\ spc' = "done"
    /\ UNCHANGED <<sIn, colorVars, titleVars, descVars, imageVars, varVars, scrapeVars, globalsVars, searchVars>>

-----------------------------------------------------------------------------
(* try_pick_desc_url_from_globals *)

DescUrlKeys == <<"productDescUrl", "detailDesc", "descUrl", "productDesc", "description">>
DescUrlKeySet == {DescUrlKeys[i] : i \in 1..Len(DescUrlKeys)}

\* isinstance(v, str) and v.startswith(("http://", "https://"))
IsAbsoluteUrl(v) == IsStr(v) /\ (StartsWith(v, "http://") \/ StartsWith(v, "https://"))

\* lines 252-255: the first recognized field of the dict that holds an absolute URL
DescUrlOf(node) ==
    LET hits == {i \in 1..Len(DescUrlKeys) : IsAbsoluteUrl(node.f[DescUrlKeys[i]])}
    IN  IF hits = {} THEN NoneV ELSE node.f[DescUrlKeys[MinOf(hits)]]

\* lines 245-262: the while loop over one blob.  heap maps the identity of a
\* dict to its recognized fields (f) and to the dicts its values() push, in
\* order (kids): a dict value itself, the dict items of a list value.
RECURSIVE DescUrlSearch(_, _, _)
DescUrlSearch(heap, stack, seen) ==
    IF stack = <<>> THEN NoneV
    ELSE LET cur == stack[Len(stack)]
             rest == SubSeq(stack, 1, Len(stack) - 1)
         IN  IF cur \in seen THEN DescUrlSearch(heap, rest, seen)
             ELSE IF DescUrlOf(heap[cur]) # NoneV THEN DescUrlOf(heap[cur])
             ELSE DescUrlSearch(heap, rest \o heap[cur].kids, seen \cup {cur})

\* lines 239-263: the loop over the blobs; blob 0 is a value that is no dict
RECURSIVE DescUrlFromBlobs(_, _)
DescUrlFromBlobs(heap, blobs) ==
    IF blobs = <<>> THEN NoneV
    ELSE IF Head(blobs) = 0 THEN DescUrlFromBlobs(heap, Tail(blobs))
    ELSE LET found == DescUrlSearch(heap, <<Head(blobs)>>, {})
         IN  IF found # NoneV THEN found ELSE DescUrlFromBlobs(heap, Tail(blobs))

try_pick_desc_url_from_globals(g) == DescUrlFromBlobs(g.heap, g.blobs)

\* a dict with one recognized field set
DescNode(key, val, kids) ==
    [f |-> [k \in DescUrlKeySet |-> IF k = key THEN val ELSE NoneV], kids |-> kids]

\* global data of a page: none; a URL at the root; a relative and a textual
\* field above a nested URL; two dicts that hold each other; a blob that is
\* no dict before one whose list item holds the URL
DescGlobals == {
    [blobs |-> <<>>, heap |-> <<>>],
    [blobs |-> <<1>>, heap |-> <<DescNode("productDescUrl", "https://a/desc", <<>>)>>],
    [blobs |-> <<1>>,
     heap |-> <<DescNode("description", "A desk lamp", <<2, 3>>),
                DescNode("detailDesc", "//b/desc", <<>>),
                DescNode("descUrl", "https://c/desc", <<>>)>>],
    [blobs |-> <<1>>,
     heap |-> <<DescNode("productDesc", NumV, <<2>>),
                DescNode("productDesc", NoneV, <<1>>)>>],
    [blobs |-> <<0, 1>>,
     heap |-> <<DescNode("description", NoneV, <<2, 2>>),
                DescNode("productDesc", "http://b/desc", <<1>>)>>] }

-----------------------------------------------------------------------------
(* extract_text_and_images_from_html, fetch_description_via_url *)

\* lines 271-276, 387-392: u = im.get("src") or im.get("data-src"), kept when
\* truthy (and, with filter, when a product image), with the scheme added
RECURSIVE ImgUrls(_, _)
ImgUrls(srcs, filter) ==
    IF srcs = <<>> THEN <<>>
    ELSE LET u == Head(srcs)
         IN  (IF IsStr(u) /\ u # "" /\ (~filter \/ IsProductImage(u))
              THEN <<AddScheme(u)>> ELSE <<>>)
             \o ImgUrls(Tail(srcs), filter)

\* the html as the parser reads it: html.text is soup.get_text("\n", strip=True),
\* html.imgs the src-or-data-src of its img elements in document order
extract_text_and_images_from_html(html) ==
    [got |-> TRUE, text |-> html.text, imgs |-> unique(ImgUrls(html.imgs, TRUE))]

\* a fetch that takes any OK response, marker or not
FetchSucceedsWithoutMarker(resp) == ~resp.raises /\ resp.ok

\* line 286: the body looks like a description page
HasDescriptionMarker(html) == html.descId \/ html.detailModule

\* lines 282-287: the response is taken
FetchSucceeds(resp) == ~resp.raises /\ resp.ok /\ HasDescriptionMarker(resp.html)

\* return None
NotGot == [got |-> FALSE, text |-> "", imgs |-> <<>>]

\* the value returned for the response the request got
fetch_description_via_url(resp) ==
    IF FetchSucceeds(resp) THEN extract_text_and_images_from_html(resp.html) ELSE NotGot

-----------------------------------------------------------------------------
(* pick_description_and_specs *)

\* Number of extend--iframe elements and of recorded network hits, at most
MaxDescSources == 2

\* line 373
NoiseThreshold == 40
\* line 401
MaxDescLines == 2000

RECURSIVE RepeatStr(_, _)
RepeatStr(c, n) ==
    IF n = 0 THEN ""
    ELSE LET half == RepeatStr(c, n \div 2)
         IN  half \o half \o (IF n % 2 = 1 THEN c ELSE "")

\* texts around the threshold: exactly at it, at it with padding, one above
\* it, and a longer one with blank and one-character lines
AtThresholdText == RepeatStr("x", NoiseThreshold)
PaddedText == " " \o AtThresholdText \o "\n"
AboveThresholdText == RepeatStr("x", NoiseThreshold + 1)
LinesText == "Desk lamp\n \ny\r\n  " \o RepeatStr("z", NoiseThreshold) \o " \nUSB"

DescImgSrcs == <<ImgE, TinyImg, NoAttrV, ImgD, ImgE, OtherHostImg>>

Html(descId, detailModule, text, srcs) ==
    [descId |-> descId, detailModule |-> detailModule, text |-> text, imgs |-> srcs]

\* what a request may come back with: an exception, a response that is not
\* OK, a body without a marker, and bodies with a marker and those texts
FetchResponses == {
    [raises |-> TRUE, ok |-> FALSE, html |-> Html(FALSE, FALSE, "", <<>>)],
    [raises |-> FALSE, ok |-> FALSE, html |-> Html(TRUE, FALSE, AboveThresholdText, DescImgSrcs)],
    [raises |-> FALSE, ok |-> TRUE, html |-> Html(FALSE, FALSE, AboveThresholdText, DescImgSrcs)],
    [raises |-> FALSE, ok |-> TRUE, html |-> Html(TRUE, FALSE, "", <<>>)],
    [raises |-> FALSE, ok |-> TRUE, html |-> Html(TRUE, FALSE, AtThresholdText, DescImgSrcs)],
    [raises |-> FALSE, ok |-> TRUE, html |-> Html(FALSE, TRUE, PaddedText, DescImgSrcs)],
    [raises |-> FALSE, ok |-> TRUE, html |-> Html(TRUE, FALSE, AboveThresholdText, DescImgSrcs)],
    [raises |-> FALSE, ok |-> TRUE, html |-> Html(FALSE, TRUE, LinesText, <<>>)] }

\* no request made yet
NoResponse == [raises |-> FALSE, ok |-> FALSE, html |-> Html(FALSE, FALSE, "", <<>>)]

\* fetch_description_via_url on each of those responses
Fetched == Table([resp \in FetchResponses |-> fetch_description_via_url(resp)])

\* #product-description.product-description of the page: not there, or its
\* text and the src-or-data-src of its img elements
NoInlineBlock == [present |-> FALSE, text |-> "", imgs |-> <<>>]
InlineBlocks == {
    NoInlineBlock,
    [present |-> TRUE, text |-> "", imgs |-> <<ImgE>>],
    [present |-> TRUE, text |-> "Lamp\nx", imgs |-> <<>>],
    [present |-> TRUE, text |-> AboveThresholdText, imgs |-> DescImgSrcs] }

IframeSrcs == {NoAttrV, "//a/desc"}
HitUrls == {"https://a/desc", "https://c/desc/detailmodule"}

NoSpecs == [root |-> FALSE, titles |-> <<>>, descs |-> <<>>, lis |-> <<>>]
TwoSpecs == [root |-> TRUE, titles |-> <<"Brand", " Size ">>, descs |-> <<"Acme", "M">>,
             lis |-> <<>>]

DescInputs ==
    [globals : DescGlobals,
     iframes : SeqsUpTo(IframeSrcs, MaxDescSources),
     inline : InlineBlocks,
     specs : {NoSpecs, TwoSpecs}]

\* lines 352-357: the src of each extend--iframe element, scheme added
RECURSIVE IframeUrls(_)
IframeUrls(srcs) ==
    IF srcs = <<>> THEN <<>>
    ELSE (IF IsStr(Head(srcs)) /\ Head(srcs) # "" THEN <<AddScheme(Head(srcs))>> ELSE <<>>)
         \o IframeUrls(Tail(srcs))

\* the candidate list without the URLs the response handler recorded
CandidateUrlsWithoutHits(in, hits) ==
    LET from_globals == try_pick_desc_url_from_globals(in.globals)
    IN  unique((IF from_globals # NoneV THEN <<from_globals>> ELSE <<>>)
               \o IframeUrls(in.iframes))

\* lines 345-362
CandidateUrls(in, hits) ==
    LET from_globals == try_pick_desc_url_from_globals(in.globals)
    IN  unique((IF from_globals # NoneV THEN <<from_globals>> ELSE <<>>)
               \o IframeUrls(in.iframes) \o hits)

\* line 373: text and len(text.strip()) > 40
AboveNoise(text) == text # "" /\ Len(Strip(text)) > NoiseThreshold

\* lines 370-376: the candidate's response makes the loop break
CandidateWins(resp) == Fetched[resp].got /\ AboveNoise(Fetched[resp].text)

\* re.split(r"[\r\n]+", s), from position i with cur the part being read
RECURSIVE SplitLinesFrom(_, _, _)
SplitLinesFrom(s, i, cur) ==
    IF i > Len(s) THEN <<cur>>
    ELSE IF Char(s, i) \in {"\r", "\n"}
         THEN IF i > 1 /\ Char(s, i - 1) \in {"\r", "\n"}
              THEN SplitLinesFrom(s, i + 1, cur)
              ELSE <<cur>> \o SplitLinesFrom(s, i + 1, "")
    ELSE SplitLinesFrom(s, i + 1, cur \o Char(s, i))

\* lines 399-400: stripped parts longer than one character
RECURSIVE KeptLines(_)
KeptLines(parts) ==
    IF parts = <<>> THEN <<>>
    ELSE (IF Len(Strip(Head(parts))) > 1 THEN <<Strip(Head(parts))>> ELSE <<>>)
         \o KeptLines(Tail(parts))

\* "\n".join(parts)
RECURSIVE JoinLines(_)
JoinLines(parts) ==
    IF parts = <<>> THEN ""
    ELSE IF Len(parts) = 1 THEN Head(parts)
    ELSE Head(parts) \o "\n" \o JoinLines(Tail(parts))

\* lines 398-401
NormalizeDescription(text) ==
    IF text = NoneV \/ text = "" THEN text
    ELSE LET parts == KeptLines(SplitLinesFrom(text, 1, ""))
         IN  JoinLines(SubSeq(parts, 1, IF Len(parts) < MaxDescLines THEN Len(parts)
                                        ELSE MaxDescLines))

NoDescResult == [description_text |-> NoneV, specs_lines |-> <<>>, desc_imgs |-> <<>>]

DescStart ==
    /\ dpc = "build"
    /\ dIn \in DescInputs
    /\ desc_hits \in SeqsUpTo(HitUrls, MaxDescSources)
    /\ candidate_urls = <<>>
    /\ fetchLog = <<>>
    /\ lastResp = NoResponse
    /\ desc_text = NoneV
    /\ desc_imgs = <<>>
    /\ dResult = NoDescResult

DescIdle ==
    /\ dpc = "idle"
    /\ dIn = [globals |-> [blobs |-> <<>>, heap |-> <<>>], iframes |-> <<>>,
              inline |-> NoInlineBlock, specs |-> NoSpecs]
    /\ desc_hits = <<>>
    /\ candidate_urls = <<>>
    /\ fetchLog = <<>>
    /\ lastResp = NoResponse
    /\ desc_text = NoneV
    /\ desc_imgs = <<>>
    /\ dResult = NoDescResult

\* lines 342-365: build the candidate list
BuildCandidates ==
    /\ dpc = "build"
    /\ candidate_urls' = CandidateUrls(dIn, desc_hits)
    /\ dpc' = IF CandidateUrls(dIn, desc_hits) = <<>> THEN "fallback" ELSE "fetch"
    /\ UNCHANGED <<dIn, desc_hits, fetchLog, lastResp, desc_text, desc_imgs, dResult>>
    /\ UNCHANGED <<colorVars, titleVars, specsVars, imageVars, varVars, scrapeVars, globalsVars, searchVars>>

\* lines 368-376: one iteration of the loop: the request for the next
\* candidate, whatever it comes back with
FetchCandidate ==
    /\ dpc = "fetch"
    /\ \E resp \in FetchResponses :
        LET u == candidate_urls[Len(fetchLog) + 1]
            got == Fetched[resp]
        IN  /\ fetchLog' = Append(fetchLog, u)
            /\ lastResp' = resp
            /\ IF CandidateWins(resp)
               THEN /\ desc_text' = got.text
                    /\ desc_imgs' = desc_imgs \o got.imgs
                    /\ dpc' = "finish"
               ELSE /\ UNCHANGED <<desc_text, desc_imgs>>
                    /\ dpc' = IF Len(fetchLog) + 1 = Len(candidate_urls)
                              THEN "fallback" ELSE "fetch"
    /\ UNCHANGED <<dIn, desc_hits, candidate_urls, dResult>>
    /\ UNCHANGED <<colorVars, titleVars, specsVars, imageVars, varVars, scrapeVars, globalsVars, searchVars>>

\* lines 379-392: the inline block of the page, entered when desc_text is unset
InlineFallback ==
    /\ dpc = "fallback"
    /\ IF dIn.inline.present
       THEN /\ desc_text' = IF dIn.inline.text # "" THEN dIn.inline.text ELSE desc_text
            /\ desc_imgs' = desc_imgs \o ImgUrls(dIn.inline.imgs, FALSE)
       ELSE UNCHANGED <<desc_text, desc_imgs>>
    /\ dpc' = "finish"
    /\ UNCHANGED <<dIn, desc_hits, candidate_urls, fetchLog, lastResp, dResult>>
    /\ UNCHANGED <<colorVars, titleVars, specsVars, imageVars, varVars, scrapeVars, globalsVars, searchVars>>

\* lines 394-404: specs, normalization, image filter, return
FinishDescription ==
    /\ dpc = "finish"
    /\ dResult' = [description_text |-> NormalizeDescription(desc_text),
                   specs_lines |-> collect_specs_from_dom(dIn.specs),
                   desc_imgs |-> ProductImagesOf(unique(desc_imgs))]
    /\ dpc' = "done"
    /\ UNCHANGED <<dIn, desc_hits, candidate_urls, fetchLog, lastResp, desc_text, desc_imgs>>
    /\ UNCHANGED <<colorVars, titleVars, specsVars, imageVars, varVars, scrapeVars, globalsVars, searchVars>>

-----------------------------------------------------------------------------
(* pick_images *)

\* Number of image sources a page fills at most
MaxImageSources == 2

\* a truthy value that is neither a str nor a dict, and a dict, once in imgs
DictV == "<dict>"

\* An element of a JSON list or an img element of the DOM:
\*   kind "str"    a string s
\*   kind "dict"   an object; url, image, src are its values under these keys
\*                 (NoneV: no such key, NumV: a value that is no str)
\*   kind "other"  a number
\*   kind "img"    an img element; src, data are its src and data-src
\*                 attributes (NoAttrV: no such attribute)
StrElem(u) ==
    [kind |-> "str", s |-> u, url |-> NoneV, image |-> NoneV, src |-> NoneV, data |-> NoneV]
DictElem(url, image, src) ==
    [kind |-> "dict", s |-> "", url |-> url, image |-> image, src |-> src, data |-> NoneV]
OtherElem ==
    [kind |-> "other", s |-> "", url |-> NoneV, image |-> NoneV, src |-> NoneV, data |-> NoneV]
ImgElem(src, data) ==
    [kind |-> "img", s |-> "", url |-> NoneV, image |-> NoneV, src |-> src, data |-> data]

ImageKeys == <<"images", "imagePathList", "imageModule", "galleryModule", "imageList",
               "summImagePathList">>
NestedImageKeys == <<"images", "imagePathList", "imageList", "summImagePathList">>
DcImageKeys == <<"imagePathList", "summImagePathList", "images">>
AerImagePaths == <<"aer.images", "aer.imageModule.images", "aer.imageModule.imagePathList">>

SeqToSet(seq) == {seq[i] : i \in 1..Len(seq)}

\* every list pick_images may read, by name: d[key], d[key][k2], dc[key], the
\* three paths under the store, and the two DOM sources
ImageSlots ==
    {"d." \o k : k \in SeqToSet(ImageKeys)}
    \cup {"d." \o k \o "." \o k2 : k \in SeqToSet(ImageKeys), k2 \in SeqToSet(NestedImageKeys)}
    \cup {"dc." \o k : k \in SeqToSet(DcImageKeys)}
    \cup SeqToSet(AerImagePaths)
    \cup {"og:image", "img"}

\* the lists the pages of the model fill
FilledImageSlots ==
    {"d.images", "d.imageModule.imagePathList", "d.imageModule.images",
     "d.galleryModule.imageList", "d.summImagePathList", "dc.imagePathList",
     "aer.images", "aer.imageModule.imagePathList", "og:image", "img"}

JsonImageLists == {
    <<StrElem(ImgA)>>,
    <<StrElem(ImgB), StrElem(TinyImg), StrElem(ImgA), StrElem(ImgB)>>,
    <<DictElem(ImgC, ImgA, NoneV), StrElem(OtherHostImg)>>,
    <<DictElem(NoneV, NumV, TrackerImg), StrElem("")>>,
    <<DictElem(NoneV, NoneV, ImgC), OtherElem>> }

OgImageLists == {<<StrElem(ImgA)>>, <<StrElem(NoExtImg)>>, <<StrElem(NoAttrV)>>}

DomImgLists == {
    <<ImgElem(ImgB, NoAttrV)>>,
    <<ImgElem(NoAttrV, ImgA), ImgElem(TinyImg, ImgC)>>,
    <<ImgElem(ImgC, ImgB), ImgElem("", ImgC), ImgElem(IconImg, NoAttrV)>> }

SlotLists(slot) ==
    IF slot = "og:image" THEN OgImageLists
    ELSE IF slot = "img" THEN DomImgLists
    ELSE JsonImageLists

\* the lists of a page with at most max of them filled; an empty list is a
\* key that is missing as well
ImageFills(max) ==
    UNION { { [s \in ImageSlots |-> IF s \in S THEN f[s] ELSE <<>>] :
                f \in {h \in [S -> JsonImageLists \cup OgImageLists \cup DomImgLists] :
                            \A s \in S : h[s] \in SlotLists(s)} } :
            S \in {T \in SUBSET FilledImageSlots : Cardinality(T) <= max} }

\* desc_imgs as pick_description_and_specs returns it
DescImgResults == {<<>>, <<"https:" \o ImgB, ImgA, ImgD>>}

\* d[key] is a list
IsListAt(f, key) == f["d." \o key] # <<>>

\* lines 157-164: what d[key] adds to candidates
RECURSIVE NestedCandidates(_, _, _)
NestedCandidates(f, key, k2s) ==
    IF k2s = <<>> THEN <<>>
    ELSE f["d." \o key \o "." \o Head(k2s)] \o NestedCandidates(f, key, Tail(k2s))

RECURSIVE Candidates(_, _)
Candidates(f, keys) ==
    IF keys = <<>> THEN <<>>
    ELSE (IF IsListAt(f, Head(keys)) THEN f["d." \o Head(keys)]
          ELSE NestedCandidates(f, Head(keys), NestedImageKeys))
         \o Candidates(f, Tail(keys))

\* lines 169-174: x["image"] if isinstance(x, dict) and "image" in x else x
RECURSIVE ImageModuleItems(_)
ImageModuleItems(list) ==
    IF list = <<>> THEN <<>>
    ELSE LET x == Head(list)
         IN  <<IF x.kind = "dict" /\ x.image # NoneV THEN x.image
               ELSE IF x.kind = "dict" THEN DictV
               ELSE IF x.kind = "other" THEN NumV
               ELSE x.s>>
             \o ImageModuleItems(Tail(list))

\* lines 165-174
FromImageModule(f) ==
    IF IsListAt(f, "imageModule") THEN <<>>
    ELSE ImageModuleItems(f["d.imageModule.imagePathList"])
         \o ImageModuleItems(f["d.imageModule.images"])

\* the dict branch of lines 178-181 and 218-221: each of url, image, src that is a str
UrlImageSrc(x) ==
    (IF IsStr(x.url) THEN <<x.url>> ELSE <<>>)
    \o (IF IsStr(x.image) THEN <<x.image>> ELSE <<>>)
    \o (IF IsStr(x.src) THEN <<x.src>> ELSE <<>>)

\* lines 175-181 and 215-221
RECURSIVE StrOrUrlImageSrc(_)
StrOrUrlImageSrc(list) ==
    IF list = <<>> THEN <<>>
    ELSE LET x == Head(list)
         IN  (IF x.kind = "str" THEN <<x.s>>
              ELSE IF x.kind = "dict" THEN UrlImageSrc(x)
              ELSE <<>>)
             \o StrOrUrlImageSrc(Tail(list))

\* lines 190-194
RECURSIVE StrOrImage(_)
StrOrImage(list) ==
    IF list = <<>> THEN <<>>
    ELSE LET x == Head(list)
         IN  (IF x.kind = "str" THEN <<x.s>>
              ELSE IF x.kind = "dict" /\ IsStr(x.image) THEN <<x.image>>
              ELSE <<>>)
             \o StrOrImage(Tail(list))

\* lines 186-194
RECURSIVE FromDCData(_, _)
FromDCData(f, keys) ==
    IF keys = <<>> THEN <<>>
    ELSE StrOrImage(f["dc." \o Head(keys)]) \o FromDCData(f, Tail(keys))

\* lines 199-221
RECURSIVE FromAerStore(_, _)
FromAerStore(f, paths) ==
    IF paths = <<>> THEN <<>>
    ELSE StrOrUrlImageSrc(f[Head(paths)]) \o FromAerStore(f, Tail(paths))

\* lines 224-226: the content of the og:image meta, when truthy
FromOgImage(f) ==
    IF f["og:image"] # <<>> /\ IsStr(f["og:image"][1].s) /\ f["og:image"][1].s # ""
    THEN <<f["og:image"][1].s>> ELSE <<>>

\* lines 228-233 for one selector: attr is the attribute the selector asks for
RECURSIVE FromImgElements(_, _)
FromImgElements(els, attr) ==
    IF els = <<>> THEN <<>>
    ELSE LET el == Head(els)
             has == IF attr = "src" THEN el.src # NoAttrV ELSE el.data # NoAttrV
             u == IF el.src # NoAttrV /\ el.src # "" THEN el.src ELSE el.data
         IN  (IF has /\ IsStr(u) /\ u # "" /\ IsProductImage(u)
              THEN <<AddScheme(u)>> ELSE <<>>)
             \o FromImgElements(Tail(els), attr)

\* lines 143-233: imgs before the last statement
CollectedImages(f) ==
    FromImageModule(f)
    \o StrOrUrlImageSrc(Candidates(f, ImageKeys))
    \o FromDCData(f, DcImageKeys)
    \o FromAerStore(f, AerImagePaths)
    \o FromOgImage(f)
    \o FromImgElements(f["img"], "src")
    \o FromImgElements(f["img"], "data")

\* line 234 raises: unique() meets a dict (unhashable), or is_product_image a number
FilterRaises(list) == \E i \in 1..Len(list) : list[i] \in {DictV, NumV}

\* line 234
FilteredImages(list) == ProductImagesOf(unique(list))

\* the union without its unique()
UnionImagesKeepingDuplicates(main, desc) == ProductImagesOf(main \o desc)

\* lines 658-660
UnionImages(main, desc) == unique(ProductImagesOf(main \o desc))

ImagesStart ==
    /\ ipc = "collect"
    /\ iIn \in [f : ImageFills(MaxImageSources), desc_imgs : DescImgResults]
    /\ imgs = <<>>
    /\ images_main = <<>>
    /\ all_images = <<>>

ImagesIdle ==
    /\ ipc = "idle"
    /\ iIn = [f |-> [s \in ImageSlots |-> <<>>], desc_imgs |-> <<>>]
    /\ imgs = <<>>
    /\ images_main = <<>>
    /\ all_images = <<>>

\* pick_images, lines 143-233
CollectImages ==
    /\ ipc = "collect"
    /\ imgs' = CollectedImages(iIn.f)
    /\ ipc' = "filter"
    /\ UNCHANGED <<iIn, images_main, all_images>>
    /\ UNCHANGED <<colorVars, titleVars, specsVars, descVars, varVars, scrapeVars, globalsVars, searchVars>>

\* pick_images, lines 234-235: return the list, or raise
FilterImages ==
    /\ ipc = "filter"
    /\ IF FilterRaises(imgs)
       THEN ipc' = "raised" /\ UNCHANGED images_main
       ELSE ipc' = "union" /\ images_main' = FilteredImages(imgs)
    /\ UNCHANGED <<iIn, imgs, all_images>>
    /\ UNCHANGED <<colorVars, titleVars, specsVars, descVars, varVars, scrapeVars, globalsVars, searchVars>>

\* scrape_text_fields, lines 658-660
UniteImages ==
    /\ ipc = "union"
    /\ all_images' = UnionImages(images_main, iIn.desc_imgs)
    /\ ipc' = "done"
    /\ UNCHANGED <<iIn, imgs, images_main>>
    /\ UNCHANGED <<colorVars, titleVars, specsVars, descVars, varVars, scrapeVars, globalsVars, searchVars>>

-----------------------------------------------------------------------------
(* collect_variations_human_labels *)

\* Number of group containers on a page, at most
MaxGroups == 2

\* line 496
OptionCap == 60
\* line 459
SummaryMaxLen == 120
\* line 471
RegionMaxLen == 200

\* line 449
DefaultGroupName == "Opção"

\* re.sub(r"\s+", " ", s) on the characters lo..hi of s: a whitespace character
\* gives one space when it starts a run, and nothing otherwise
RECURSIVE CollapseRange(_, _, _)
CollapseRange(s, lo, hi) ==
    IF lo > hi THEN ""
    ELSE IF lo = hi
         THEN IF ~IsSpace(Char(s, lo)) THEN Char(s, lo)
              ELSE IF lo > 1 /\ IsSpace(Char(s, lo - 1)) THEN "" ELSE " "
    ELSE LET mid == (lo + hi) \div 2
         IN  CollapseRange(s, lo, mid) \o CollapseRange(s, mid + 1, hi)

CollapseWs(s) == CollapseRange(s, 1, Len(s))

\* (await el.inner_text() or "").strip() of an element; NoneV: no such element
StrippedText(el) == IF IsStr(el) THEN Strip(el) ELSE ""

\* lines 437-449: els holds, for each of the five selectors, the text of the
\* element it finds in the container
RECURSIVE GroupNameFrom(_)
GroupNameFrom(els) ==
    IF els = <<>> THEN DefaultGroupName
    ELSE IF StrippedText(Head(els)) # "" THEN CollapseWs(StrippedText(Head(els)))
    ELSE GroupNameFrom(Tail(els))

get_group_name(g) == GroupNameFrom(g.nameEls)

\* lines 461-473: the four further selectors of the summary
RECURSIVE RegionSummary(_)
RegionSummary(els) ==
    IF els = <<>> THEN NoneV
    ELSE LET txt == CollapseWs(StrippedText(Head(els)))
         IN  IF txt # "" /\ Len(txt) < RegionMaxLen THEN txt
             ELSE RegionSummary(Tail(els))

\* lines 451-473: p.selected is the text of the element the first selector
\* finds on the page, p.regions the texts for the four others
read_selection_summary(p) ==
    LET txt == CollapseWs(StrippedText(p.selected))
    IN  IF txt # "" /\ Len(txt) < SummaryMaxLen THEN txt
        ELSE RegionSummary(p.regions)

\* lines 475-487: thumbs holds, for each of the three selectors, the img it finds
RECURSIVE read_active_thumb_label(_)
read_active_thumb_label(thumbs) ==
    IF thumbs = <<>> THEN NoneV
    ELSE LET el == Head(thumbs)
             v == IF el.present THEN FirstNonBlank(<<el.alt, el.title, el.aria>>) ELSE NoneV
         IN  IF v # NoneV THEN v ELSE read_active_thumb_label(Tail(thumbs))

\* re.fullmatch(r"MS[\w-]+", label, re.I)
IsOpaqueCode(label) ==
    /\ Len(label) >= 3
    /\ Lower(SubSeq(label, 1, 2)) = "ms"
    /\ \A i \in 3..Len(label) : IsWordChar(Char(label, i)) \/ Char(label, i) = "-"

\* lines 524, 531: not label or the label is an opaque code
NeedsFallback(label) == label = NoneV \/ IsOpaqueCode(label)

\* summary.split(":")[-1].strip()
AfterLastColon(s) ==
    LET at == {i \in 1..Len(s) : Char(s, i) = ":"}
    IN  Strip(SubSeq(s, MaxOf(at) + 1, Len(s)))

\* lines 526-529: the label the summary gives, "" when it gives none
SummaryCandidate(summary) ==
    IF summary # NoneV /\ Contains(summary, ":") THEN AfterLastColon(summary) ELSE ""

\* an img element by its attributes, and no element
NodeImg(alt, title, aria, src, data) ==
    [present |-> TRUE, alt |-> alt, title |-> title, aria |-> aria, src |-> src, data |-> data]
NoImg ==
    [present |-> FALSE, alt |-> NoAttrV, title |-> NoAttrV, aria |-> NoAttrV,
     src |-> NoAttrV, data |-> NoAttrV]

\* the summary regions of the page after a click: none; a selected region
\* with a value; one without a colon; one that is too long, before a region
\* whose value is an opaque code
NoSummary == [selected |-> NoneV, regions |-> <<NoneV, NoneV, NoneV, NoneV>>]
SummaryPages == {
    NoSummary,
    [selected |-> "Selecionado:\n Azul ", regions |-> <<NoneV, NoneV, NoneV, NoneV>>],
    [selected |-> "Selecionado", regions |-> <<"Cor: Verde", NoneV, NoneV, NoneV>>],
    [selected |-> "S:" \o RepeatStr("s", SummaryMaxLen),
     regions |-> <<"", RepeatStr("c", RegionMaxLen), "Cor: MS-77", NoneV>>] }

\* the active thumbnails of the gallery after a click
NoThumbs == <<NoImg, NoImg, NoImg>>
ThumbPages == {
    NoThumbs,
    <<NoImg, NodeImg(" ", "Azul", NoAttrV, ImgA, NoAttrV), NoImg>> }

\* read_selection_summary and read_active_thumb_label on each of those pages
SummaryOf == Table([p \in SummaryPages |-> read_selection_summary(p)])
ThumbLabelOf == Table([t \in ThumbPages |-> read_active_thumb_label(t)])

\* lines 514-518: the first of the four attributes that holds a label
AttrLabel(o) == FirstNonBlank(<<o.title, o.aria, o.dataTitle, o.skuText>>)

\* lines 513-522: the label the option itself gives
OwnLabel(o) ==
    IF AttrLabel(o) # NoneV THEN AttrLabel(o)
    ELSE IF StrippedText(o.text) # "" THEN StrippedText(o.text)
    ELSE NoneV

\* lines 537-543: the label the img inside the option gives
ImageLabel(o) ==
    IF o.img.present
    THEN FirstNonBlank(<<o.img.alt, o.img.title, o.img.aria, o.img.src, o.img.data>>)
    ELSE NoneV

\* lines 525-529: the label after the summary fallback; the summary is read
\* when the label so far is missing or an opaque code
LabelAfterSummary(label, env) ==
    IF NeedsFallback(label) /\ SummaryCandidate(SummaryOf[env.summary]) # ""
    THEN SummaryCandidate(SummaryOf[env.summary]) ELSE label

\* lines 531-534: the label after the thumbnail fallback
LabelAfterThumb(label, env) ==
    IF NeedsFallback(label) /\ ThumbLabelOf[env.thumbs] # NoneV
    THEN ThumbLabelOf[env.thumbs] ELSE label

\* lines 536-543: the label after the image fallback, read when there is no label
LabelAfterImage(label, o) ==
    IF label = NoneV /\ ImageLabel(o) # NoneV THEN ImageLabel(o) ELSE label

\* lines 513-543: local label at line 545 when no read raises
FinalLabel(o, env) ==
    LabelAfterImage(LabelAfterThumb(LabelAfterSummary(OwnLabel(o), env), env), o)

\* the fallbacks that gave a label
FallbacksUsed(o, env) ==
    (IF LabelAfterSummary(OwnLabel(o), env) # OwnLabel(o) THEN {"summary"} ELSE {})
    \cup (IF NeedsFallback(LabelAfterSummary(OwnLabel(o), env))
              /\ ThumbLabelOf[env.thumbs] # NoneV
          THEN {"thumb"} ELSE {})
    \cup (IF LabelAfterThumb(LabelAfterSummary(OwnLabel(o), env), env) = NoneV
              /\ ImageLabel(o) # NoneV
          THEN {"image"} ELSE {})

\* env.fail is the read that raises, if the iteration gets to it: the except
\* of line 551 is taken
OptionRaises(o, env) ==
    \/ env.fail \in {"scroll", "attr"}
    \/ env.fail = "text" /\ AttrLabel(o) = NoneV
    \/ env.fail = "summary" /\ NeedsFallback(OwnLabel(o))
    \/ env.fail = "thumb" /\ NeedsFallback(LabelAfterSummary(OwnLabel(o), env))
    \/ env.fail = "img" /\ LabelAfterThumb(LabelAfterSummary(OwnLabel(o), env), env) = NoneV

\* lines 498-543 for option o when the page answers as env says.  A click
\* that raises is swallowed (lines 500-509) and changes nothing the function
\* keeps.  raised: the except of line 551 was taken; label: local label at
\* line 545; gave: the fallbacks (summary, thumb, image) that gave a label.
OptionLabel(o, env) ==
    IF OptionRaises(o, env)
    THEN [raised |-> TRUE, label |-> NoneV, gave |-> {}]
    ELSE [raised |-> FALSE, label |-> FinalLabel(o, env), gave |-> FallbacksUsed(o, env)]

\* a resolver that drops a label that is an opaque code
AddsLabelUnlessOpaque(label) == label # NoneV /\ ~IsOpaqueCode(label)

\* line 545: if label
AddsLabel(label) == label # NoneV

\* lines 546-547
PrettyLabel(label) == prettify_color(CollapseWs(label))

\* the merge without its membership test
MergeValuesKeepingDuplicates(old, new) == old \o new

\* lines 561-563
RECURSIVE MergeValues(_, _)
MergeValues(old, new) ==
    IF new = <<>> THEN old
    ELSE MergeValues(IF SeqContains(old, Head(new)) THEN old ELSE Append(old, Head(new)),
                     Tail(new))

\* lines 557-564: merged after the items of rs, as the list of its entries in
\* insertion order
RECURSIVE MergeFrom(_, _)
MergeFrom(rs, merged) ==
    IF rs = <<>> THEN merged
    ELSE LET v == Head(rs)
             n == IF v.name # "" THEN v.name ELSE DefaultGroupName
             at == {i \in 1..Len(merged) : merged[i].name = n}
         IN  MergeFrom(Tail(rs),
                 IF at = {}
                 THEN Append(merged, [name |-> n, values |-> MergeValues(<<>>, v.values)])
                 ELSE [merged EXCEPT ![MinOf(at)].values = MergeValues(@, v.values)])

MergedGroups(rs) == MergeFrom(rs, <<>>)

\* an option element: its four attributes, its inner text, the img inside it
Option(title, aria, dataTitle, skuText, text, img) ==
    [title |-> title, aria |-> aria, dataTitle |-> dataTitle, skuText |-> skuText,
     text |-> text, img |-> img]

OptRed == Option("Red", NoAttrV, NoAttrV, NoAttrV, "", NoImg)
OptBlue == Option(NoAttrV, "Blue", NoAttrV, NoAttrV, "Blue", NoImg)
OptDarkGreen == Option(" ", NoAttrV, NoAttrV, " Dark \n Green ", "", NoImg)
OptRedText == Option(NoAttrV, NoAttrV, NoAttrV, NoAttrV, " RED\n", NoImg)
OptCode == Option("MS123", NoAttrV, NoAttrV, NoAttrV, "", NoImg)
OptBare == Option(NoAttrV, NoAttrV, NoAttrV, NoAttrV, NoneV, NoImg)
OptImage ==
    Option(NoAttrV, NoAttrV, NoAttrV, NoAttrV, "",
           NodeImg("", NoAttrV, NoAttrV, ImgA, NoAttrV))
OptM == Option("M", NoAttrV, NoAttrV, NoAttrV, "M", NoImg)
OptL == Option(NoAttrV, NoAttrV, "L", NoAttrV, "", NoImg)

\* a group container: the texts its five name selectors find, and its options
ColorGroup == [nameEls |-> <<"Color", NoneV, NoneV, NoneV, NoneV>>,
               opts |-> <<OptRed, OptBlue, OptDarkGreen>>]
SizeGroup == [nameEls |-> <<" ", NoneV, "Size", NoneV, "Tamanho">>,
              opts |-> <<OptM, OptL>>]
ColorAgainGroup == [nameEls |-> <<NoneV, NoneV, NoneV, " Color\n", NoneV>>,
                    opts |-> <<OptRedText, OptCode>>]
UnnamedGroup == [nameEls |-> <<NoneV, "", NoneV, NoneV, NoneV>>,
                 opts |-> <<OptBare, OptImage>>]

GroupContainers == {ColorGroup, SizeGroup, ColorAgainGroup, UnnamedGroup}

\* the containers of a page: at most max of them, each one once
VariationPages(max) ==
    {p \in SeqsUpTo(GroupContainers, max) : \A i, j \in 1..Len(p) : i # j => p[i] # p[j]}

\* what the page does during one option's iteration: the read that raises
\* and what the page shows after the click.  Whether the click went through
\* (lines 500-509) changes nothing the function keeps.
ClickEnvs ==
    [fail : {"none", "scroll", "attr", "text", "summary", "thumb", "img"},
     summary : SummaryPages,
     thumbs : ThumbPages]

\* OptionLabel for each option of the model's pages and each answer of the page
PageOptions == UNION {SeqToSet(g.opts) : g \in GroupContainers}
OptionLabelOf ==
    Table([o \in PageOptions |-> Table([env \in ClickEnvs |-> OptionLabel(o, env)])])

\* every label an iteration may end with, and lines 546-547 on each
ResolvedLabels ==
    {OptionLabelOf[o][env].label : o \in PageOptions, env \in ClickEnvs} \ {NoneV}
PrettyOf == Table([label \in ResolvedLabels |-> PrettyLabel(label)])

\* opts[:60]
Options(g) == SubSeq(g.opts, 1, IF Len(g.opts) < OptionCap THEN Len(g.opts) ELSE OptionCap)

NoOption == [raised |-> FALSE, label |-> NoneV, gave |-> {}, added |-> FALSE]

VarStart ==
    /\ vpc = "expand"
    /\ vIn \in VariationPages(MaxGroups)
    /\ gi = 0
    /\ oi = 0
    /\ group_name = ""
    /\ values = <<>>
    /\ seen_labels = {}
    /\ results = <<>>
    /\ clicks = <<>>
    /\ lastOption = NoOption
    /\ vErr = "none"
    /\ vResult = <<>>

VarIdle ==
    /\ vpc = "idle"
    /\ vIn = <<>>
    /\ gi = 0
    /\ oi = 0
    /\ group_name = ""
    /\ values = <<>>
    /\ seen_labels = {}
    /\ results = <<>>
    /\ clicks = <<>>
    /\ lastOption = NoOption
    /\ vErr = "none"
    /\ vResult = <<>>

\* lines 416-429: the "see more" buttons; whatever the page does, clicked or
\* raised, is swallowed, and nothing the function keeps changes
ExpandMore ==
    /\ vpc = "expand"
    /\ vpc' = "groups"
    /\ UNCHANGED <<vIn, gi, oi, group_name, values, seen_labels, results, clicks,
                   lastOption, vErr, vResult>>
    /\ UNCHANGED <<colorVars, titleVars, specsVars, descVars, imageVars, scrapeVars, globalsVars, searchVars>>

\* lines 431-434: the query for the containers, outside any try
QueryGroups ==
    /\ vpc = "groups"
    /\ \E raises \in BOOLEAN :
        IF raises
        THEN vpc' = "raised" /\ vErr' = "groups" /\ gi' = gi
        ELSE /\ vpc' = IF vIn = <<>> THEN "merge" ELSE "group"
             /\ gi' = 1
             /\ vErr' = vErr
    /\ UNCHANGED <<vIn, oi, group_name, values, seen_labels, results, clicks,
                   lastOption, vResult>>
    /\ UNCHANGED <<colorVars, titleVars, specsVars, descVars, imageVars, scrapeVars, globalsVars, searchVars>>

\* lines 490-495: the name and the options of container g, outside any try.
\* fail is the call that raises: a query of get_group_name or the query for
\* the options.
OpenGroup ==
    /\ vpc = "group"
    /\ \E fail \in {"none", "name", "options"} :
        IF fail # "none"
        THEN /\ vpc' = "raised"
             /\ vErr' = fail
             /\ UNCHANGED <<oi, group_name, values, seen_labels>>
        ELSE /\ group_name' = get_group_name(vIn[gi])
             /\ values' = <<>>
             /\ seen_labels' = {}
             /\ oi' = 1
             /\ vpc' = IF Options(vIn[gi]) = <<>> THEN "close" ELSE "option"
             /\ vErr' = vErr
    /\ UNCHANGED <<vIn, gi, results, clicks, lastOption, vResult>>
    /\ UNCHANGED <<colorVars, titleVars, specsVars, descVars, imageVars, scrapeVars, globalsVars, searchVars>>

\* lines 497-552: one iteration of the loop over the options
ClickOption ==
    /\ vpc = "option"
    /\ \E env \in ClickEnvs :
        LET r == OptionLabelOf[Options(vIn[gi])[oi]][env]
            pretty == IF AddsLabel(r.label) THEN PrettyOf[r.label] ELSE NoneV
            adds == pretty # NoneV /\ pretty \notin seen_labels
        IN  /\ lastOption' = [raised |-> r.raised, label |-> r.label, gave |-> r.gave,
                              added |-> adds]
            /\ values' = IF adds THEN Append(values, pretty) ELSE values
            /\ seen_labels' = IF adds THEN seen_labels \cup {pretty} ELSE seen_labels
            /\ clicks' = IF pretty # NoneV
                         THEN Append(clicks, [name |-> group_name, value |-> pretty])
                         ELSE clicks
    /\ oi' = oi + 1
    /\ vpc' = IF oi < Len(Options(vIn[gi])) THEN "option" ELSE "close"
    /\ UNCHANGED <<vIn, gi, group_name, results, vErr, vResult>>
    /\ UNCHANGED <<colorVars, titleVars, specsVars, descVars, imageVars, scrapeVars, globalsVars, searchVars>>

\* lines 554-555, and the step of the loop over the containers
CloseGroup ==
    /\ vpc = "close"
    /\ results' = IF values # <<>>
                  THEN Append(results, [name |-> group_name, values |-> values])
                  ELSE results
    /\ gi' = gi + 1
    /\ vpc' = IF gi < Len(vIn) THEN "group" ELSE "merge"
    /\ UNCHANGED <<vIn, oi, group_name, values, seen_labels, clicks, lastOption, vErr, vResult>>
    /\ UNCHANGED <<colorVars, titleVars, specsVars, descVars, imageVars, scrapeVars, globalsVars, searchVars>>

\* lines 557-564
MergeGroups ==
    /\ vpc = "merge"
    /\ vResult' = MergedGroups(results)
    /\ vpc' = "done"
    /\ UNCHANGED <<vIn, gi, oi, group_name, values, seen_labels, results, clicks,
                   lastOption, vErr>>
    /\ UNCHANGED <<colorVars, titleVars, specsVars, descVars, imageVars, scrapeVars, globalsVars, searchVars>>

-----------------------------------------------------------------------------
(* get_global_jsons, scrape_text_fields *)

\* lines 86-90, by the global each probe reads
JS_SNIFFERS == <<"runParams", "DCData", "__AER_DATA__">>

\* lines 92-101: the probes kept, in order: those that evaluate to a truthy
\* value on the page and whose evaluation does not raise
RECURSIVE KeptProbes(_, _, _)
KeptProbes(probes, truthy, raising) ==
    IF probes = <<>> THEN <<>>
    ELSE (IF Head(probes) \in truthy /\ Head(probes) \notin raising
          THEN <<Head(probes)>> ELSE <<>>)
         \o KeptProbes(Tail(probes), truthy, raising)

get_global_jsons(page, raising) == KeptProbes(JS_SNIFFERS, page.truthy, raising)

\* g.get(js) of pick_title: the runParams and DCData entries of the mapping
TitleArgs(page, g) ==
    [rp |-> IF SeqContains(g, "runParams") THEN page.title.rp ELSE "absent",
     pmIsDict |-> page.title.pmIsDict,
     dcIsDict |-> page.title.dcIsDict /\ SeqContains(g, "DCData"),
     f |-> page.title.f]

\* g.get(js) of pick_images: the lists under an entry the mapping lacks are not there
ImageArgs(page, g) ==
    [s \in ImageSlots |->
        IF StartsWith(s, "d.") /\ ~SeqContains(g, "runParams") THEN <<>>
        ELSE IF StartsWith(s, "dc.") /\ ~SeqContains(g, "DCData") THEN <<>>
        ELSE IF StartsWith(s, "aer.") /\ ~SeqContains(g, "__AER_DATA__") THEN <<>>
        ELSE page.images[s]]

\* globals_data.values() in order: the blob of each kept probe
RECURSIVE BlobsOf(_, _)
BlobsOf(page, g) ==
    IF g = <<>> THEN <<>> ELSE <<page.blob[Head(g)]>> \o BlobsOf(page, Tail(g))

DescArgs(page, g) ==
    [globals |-> [blobs |-> BlobsOf(page, g), heap |-> page.heap],
     iframes |-> page.iframes,
     inline |-> page.inline,
     specs |-> page.specs]

NoTitleFields == [s \in TitleSlots |-> NoneV]
NoImageLists == [s \in ImageSlots |-> <<>>]

\* a page with nothing on it
EmptyPage ==
    [truthy |-> {},
     title |-> [rp |-> "absent", pmIsDict |-> FALSE, dcIsDict |-> FALSE, f |-> NoTitleFields],
     images |-> NoImageLists,
     blob |-> [p \in {"runParams", "DCData", "__AER_DATA__"} |-> 0],
     heap |-> <<>>,
     iframes |-> <<>>,
     inline |-> NoInlineBlock,
     specs |-> NoSpecs,
     groups |-> <<>>]

\* a product page: title and images in runParams and DCData, a description
\* URL in runParams and in an iframe, an inline block, specs, one group
LampPage ==
    [truthy |-> {"runParams", "DCData"},
     title |-> [rp |-> "data", pmIsDict |-> FALSE, dcIsDict |-> TRUE,
                f |-> [NoTitleFields EXCEPT !["d.title"] = " Lamp ",
                                            !["dc.name"] = "Desk lamp",
                                            !["h1"] = "Lamp h1"]],
     images |-> [NoImageLists EXCEPT !["d.images"] = <<StrElem(ImgA), StrElem(TinyImg)>>,
                                     !["dc.imagePathList"] = <<StrElem(ImgB), StrElem(ImgA)>>,
                                     !["img"] = <<ImgElem(ImgC, NoAttrV)>>],
     blob |-> [p \in {"runParams", "DCData", "__AER_DATA__"} |->
                  IF p = "runParams" THEN 1 ELSE 0],
     heap |-> <<DescNode("productDescUrl", "https://a/desc", <<>>)>>,
     iframes |-> <<"//b/desc">>,
     inline |-> [present |-> TRUE, text |-> AboveThresholdText, imgs |-> <<ImgE>>],
     specs |-> TwoSpecs,
     groups |-> <<ColorAgainGroup>>]

\* a page whose image module holds an object without an image
OddPage ==
    [truthy |-> {"runParams"},
     title |-> [rp |-> "self", pmIsDict |-> FALSE, dcIsDict |-> FALSE, f |-> NoTitleFields],
     images |-> [NoImageLists EXCEPT
                    !["d.imageModule.images"] = <<DictElem(ImgA, NoneV, NoneV)>>,
                    !["og:image"] = <<StrElem(ImgB)>>],
     blob |-> [p \in {"runParams", "DCData", "__AER_DATA__"} |-> 0],
     heap |-> <<>>,
     iframes |-> <<>>,
     inline |-> NoInlineBlock,
     specs |-> NoSpecs,
     groups |-> <<SizeGroup>>]

ScrapePages == {EmptyPage, LampPage, OddPage}

\* responses the page gets: a description body, a script with desc in its
\* URL, a page that is no description
ResponseEvents == {
    [url |-> "https://a/desc", ctype |-> "text/html; charset=utf-8", raises |-> FALSE],
    [url |-> "https://C/DetailModule/1", ctype |-> "Text/HTML", raises |-> FALSE],
    [url |-> "https://a/desc.js", ctype |-> "application/javascript", raises |-> FALSE],
    [url |-> "https://a/item", ctype |-> "text/html", raises |-> FALSE],
    [url |-> "https://a/productdesc", ctype |-> "text/html", raises |-> TRUE] }

\* lines 604-609
IsDescriptionResponse(resp) ==
    /\ \E k \in {"desc", "detailmodule", "productdesc"} : Contains(Lower(resp.url), k)
    /\ Contains(Lower(resp.ctype), "text/html")

NoResult ==
    [title |-> NoneV, images |-> <<>>, description_text |-> NoneV, specs |-> <<>>,
     variations |-> <<>>]

ScrapeStart ==
    /\ rpc = "goto"
    /\ rIn \in ScrapePages
    /\ globals_data = <<>>
    /\ rErr = "none"
    /\ result = NoResult

ScrapeIdle ==
    /\ rpc = "idle"
    /\ rIn = EmptyPage
    /\ globals_data = <<>>
    /\ rErr = "none"
    /\ result = NoResult

\* the positions at which the page is open
PageOpen == {"goto", "wait", "settle", "content", "title", "images", "description",
             "variations"}

\* The handler runs on the event loop, so only while the coroutine is suspended
\* in an await: lines 616-651, the fetches of line 370, and the calls on the
\* page of collect_variations_human_labels.  pick_title, pick_images and lines
\* 342-365 and 378-404 of pick_description_and_specs await nothing that suspends.
Suspended ==
    \/ rpc \in {"goto", "wait", "settle", "content", "variations"}
    \/ rpc = "description" /\ dpc = "fetch"

\* lines 602-612: the handler of one response
OnResponse ==
    /\ rpc \in PageOpen
    /\ Suspended
    /\ Len(desc_hits) < MaxDescSources
    /\ \E resp \in ResponseEvents :
        desc_hits' = IF ~resp.raises /\ IsDescriptionResponse(resp)
                     THEN Append(desc_hits, resp.url) ELSE desc_hits
    /\ UNCHANGED <<dpc, dIn, candidate_urls, fetchLog, lastResp, desc_text, desc_imgs, dResult>>
    /\ UNCHANGED <<colorVars, titleVars, specsVars, imageVars, varVars, scrapeVars, globalsVars, searchVars>>

\* line 616
Goto ==
    /\ rpc = "goto"
    /\ \E raises \in BOOLEAN :
        IF raises THEN rpc' = "raised" /\ rErr' = "goto"
        ELSE rpc' = "wait" /\ rErr' = rErr
    /\ UNCHANGED <<rIn, globals_data, result>>
    /\ UNCHANGED <<colorVars, titleVars, specsVars, descVars, imageVars, varVars, globalsVars, searchVars>>

\* lines 617-620: the wait ends, by network idle or by a timeout that is swallowed
WaitNetworkIdle ==
    /\ rpc = "wait"
    /\ \E timedOut \in BOOLEAN : rpc' = "settle"
    /\ UNCHANGED <<rIn, globals_data, rErr, result>>
    /\ UNCHANGED <<colorVars, titleVars, specsVars, descVars, imageVars, varVars, globalsVars, searchVars>>

\* lines 622-648: popups and scrolling swallow what they raise; the wait of
\* line 640 does not
SettlePage ==
    /\ rpc = "settle"
    /\ \E raises \in BOOLEAN :
        IF raises THEN rpc' = "raised" /\ rErr' = "delay"
        ELSE rpc' = "content" /\ rErr' = rErr
    /\ UNCHANGED <<rIn, globals_data, result>>
    /\ UNCHANGED <<colorVars, titleVars, specsVars, descVars, imageVars, varVars, globalsVars, searchVars>>

\* lines 650-653: page.content(), get_global_jsons, and the call of pick_title
ReadPage ==
    /\ rpc = "content"
    /\ \E raises \in BOOLEAN, raising \in SUBSET {"runParams", "DCData", "__AER_DATA__"} :
        IF raises
        THEN /\ rpc' = "raised"
             /\ rErr' = "content"
             /\ UNCHANGED <<globals_data, titleVars>>
        ELSE /\ globals_data' = get_global_jsons(rIn, raising)
             /\ tIn' = TitleArgs(rIn, get_global_jsons(rIn, raising))
             /\ tpc' = "call"
             /\ tResult' = tResult
             /\ rpc' = "title"
             /\ rErr' = rErr
    /\ UNCHANGED <<rIn, result>>
    /\ UNCHANGED <<colorVars, specsVars, descVars, imageVars, varVars, globalsVars, searchVars>>

\* line 654: the call of pick_images, once pick_title has returned
CallPickImages ==
    /\ rpc = "title"
    /\ tpc = "done"
    /\ iIn' = [f |-> ImageArgs(rIn, globals_data), desc_imgs |-> <<>>]
    /\ ipc' = "collect"
    /\ rpc' = "images"
    /\ UNCHANGED <<imgs, images_main, all_images>>
    /\ UNCHANGED <<rIn, globals_data, rErr, result>>
    /\ UNCHANGED <<colorVars, titleVars, specsVars, descVars, varVars, globalsVars, searchVars>>

\* line 654: pick_images raised
ImagesRaised ==
    /\ rpc = "images"
    /\ ipc = "raised"
    /\ rpc' = "raised"
    /\ rErr' = "images"
    /\ UNCHANGED <<rIn, globals_data, result>>
    /\ UNCHANGED <<colorVars, titleVars, specsVars, descVars, imageVars, varVars, globalsVars, searchVars>>

\* lines 655-657: the call of pick_description_and_specs, once pick_images has returned
CallPickDescription ==
    /\ rpc = "images"
    /\ ipc = "union"
    /\ dIn' = DescArgs(rIn, globals_data)
    /\ dpc' = "build"
    /\ rpc' = "description"
    /\ UNCHANGED <<desc_hits, candidate_urls, fetchLog, lastResp, desc_text, desc_imgs, dResult>>
    /\ UNCHANGED <<rIn, globals_data, rErr, result>>
    /\ UNCHANGED <<colorVars, titleVars, specsVars, imageVars, varVars, globalsVars, searchVars>>

\* lines 658-661: the union of the images, and the call of
\* collect_variations_human_labels
CallCollectVariations ==
    /\ rpc = "description"
    /\ dpc = "done"
    /\ all_images' = UnionImages(images_main, dResult.desc_imgs)
    /\ ipc' = "done"
    /\ vIn' = rIn.groups
    /\ vpc' = "expand"
    /\ rpc' = "variations"
    /\ UNCHANGED <<iIn, imgs, images_main>>
    /\ UNCHANGED <<gi, oi, group_name, values, seen_labels, results, clicks, lastOption,
                   vErr, vResult>>
    /\ UNCHANGED <<rIn, globals_data, rErr, result>>
    /\ UNCHANGED <<colorVars, titleVars, specsVars, descVars, globalsVars, searchVars>>

\* line 661: collect_variations_human_labels raised
VariationsRaised ==
    /\ rpc = "variations"
    /\ vpc = "raised"
    /\ rpc' = "raised"
    /\ rErr' = "variations"
    /\ UNCHANGED <<rIn, globals_data, result>>
    /\ UNCHANGED <<colorVars, titleVars, specsVars, descVars, imageVars, varVars, globalsVars, searchVars>>

\* lines 663-671; url and product_id of the record depend on the argument only
BuildResult ==
    /\ rpc = "variations"
    /\ vpc = "done"
    /\ result' = [title |-> tResult, images |-> all_images,
                  description_text |-> dResult.description_text,
                  specs |-> dResult.specs_lines, variations |-> vResult]
    /\ rpc' = "close"
    /\ UNCHANGED <<rIn, globals_data, rErr>>
    /\ UNCHANGED <<colorVars, titleVars, specsVars, descVars, imageVars, varVars, globalsVars, searchVars>>

\* lines 673-675
CloseAndReturn ==
    /\ rpc = "close"
    /\ \E raises \in BOOLEAN :
        IF raises THEN rpc' = "raised" /\ rErr' = "close"
        ELSE rpc' = "returned" /\ rErr' = rErr
    /\ UNCHANGED <<rIn, globals_data, result>>
    /\ UNCHANGED <<colorVars, titleVars, specsVars, descVars, imageVars, varVars, globalsVars, searchVars>>

-----------------------------------------------------------------------------
(* get_global_jsons, probe by probe *)

\* what page.evaluate(js) can give: an exception, None for a JavaScript null,
\* an empty object or array, a number, a non-empty object
RaisesV == "<raises>"
EmptyV == "{}"
ObjV == "{...}"
ProbeOutcomes == {RaisesV, NoneV, EmptyV, NumV, ObjV}

\* line 97: "if val", the truth value Python gives val
Truthy(val) == val \notin {NoneV, EmptyV}

\* lines 86-90: each probe gives null unless the global is truthy in
\* JavaScript, and the third gives an object that has a store
PageProbes ==
    { f \in [{"runParams", "DCData", "__AER_DATA__"} -> ProbeOutcomes] :
        f["__AER_DATA__"] \in {RaisesV, NoneV, ObjV} }

NoProbes == [p \in {"runParams", "DCData", "__AER_DATA__"} |-> NoneV]

GlobalsStart ==
    /\ jpc = "probe"
    /\ jIn \in PageProbes
    /\ probed = <<>>
    /\ jData = <<>>

GlobalsIdle ==
    /\ jpc = "idle"
    /\ jIn = NoProbes
    /\ probed = <<>>
    /\ jData = <<>>

\* lines 94-100: one iteration of the loop over JS_SNIFFERS
EvaluateProbe ==
    /\ jpc = "probe"
    /\ Len(probed) < Len(JS_SNIFFERS)
    /\ LET js == JS_SNIFFERS[Len(probed) + 1]
           val == jIn[js]
       IN /\ probed' = Append(probed, js)
          /\ jData' = IF val # RaisesV /\ Truthy(val)
                      THEN Append(jData, [js |-> js, val |-> val]) ELSE jData
    /\ UNCHANGED <<jpc, jIn>>
    /\ UNCHANGED <<colorVars, titleVars, specsVars, descVars, imageVars, varVars, scrapeVars,
                   searchVars>>

\* line 101
ReturnData ==
    /\ jpc = "probe"
    /\ Len(probed) = Len(JS_SNIFFERS)
    /\ jpc' = "done"
    /\ UNCHANGED <<jIn, probed, jData>>
    /\ UNCHANGED <<colorVars, titleVars, specsVars, descVars, imageVars, varVars, scrapeVars,
                   searchVars>>

-----------------------------------------------------------------------------
(* try_pick_desc_url_from_globals, object by object *)

MaxObjects == 3

\* a seen test that finds nothing
NeverSeen(cur, ids) == FALSE

\* line 247: id(cur) in seen
AlreadySeen(cur, ids) == cur \in ids

\* the dicts a dict's values() push (line 256-262), as identities in push order
KidLists(n) ==
    {<<>>} \cup {<<a>> : a \in 1..n}
           \cup {kids \in (1..n) \X (1..n) : kids[1] < kids[2]}

\* the dicts reachable from a set of dicts through kids
RECURSIVE ReachFrom(_, _)
ReachFrom(heap, ids) ==
    LET more == ids \cup UNION {{heap[i].kids[k] : k \in 1..Len(heap[i].kids)} : i \in ids}
    IN  IF more = ids THEN ids ELSE ReachFrom(heap, more)

\* n dicts that hold each other in every way, cycles included; dict 2 may
\* hold an absolute URL, the dicts of odd identity hold a relative one
SearchHeaps(n) ==
    { [i \in 1..n |->
          IF i = at THEN DescNode("descUrl", "https://c/desc", kids[i])
          ELSE IF i % 2 = 1 THEN DescNode("detailDesc", "//b/desc", kids[i])
          ELSE DescNode("productDesc", NoneV, kids[i])] :
        at \in {0, 2}, kids \in [1..n -> KidLists(n)] }

\* a blob that is no dict before one that is; two blobs, which two calls of
\* page.evaluate built and which therefore share no object
SearchGlobals(n) ==
    { g \in [heap : SearchHeaps(n), blobs : {<<0, 1>>, <<1, 2>>}] :
        g.blobs = <<1, 2>> =>
            /\ n >= 2
            /\ ReachFrom(g.heap, {1}) \cap ReachFrom(g.heap, {2}) = {} }

SearchStart ==
    /\ upc = "key"
    /\ uIn \in SearchGlobals(MaxObjects)
    /\ bi = 0
    /\ uStack = <<>>
    /\ uSeen = {}
    /\ visits = <<>>
    /\ uResult = NoneV

SearchIdle ==
    /\ upc = "idle"
    /\ uIn = [heap |-> <<>>, blobs |-> <<>>]
    /\ bi = 0
    /\ uStack = <<>>
    /\ uSeen = {}
    /\ visits = <<>>
    /\ uResult = NoneV

\* lines 239-244: the next key of the outer loop
TakeBlob ==
    /\ upc = "key"
    /\ bi < Len(uIn.blobs)
    /\ bi' = bi + 1
    /\ IF uIn.blobs[bi + 1] = 0
       THEN UNCHANGED <<upc, uStack, uSeen>>
       ELSE /\ uStack' = <<uIn.blobs[bi + 1]>>
            /\ uSeen' = {}
            /\ upc' = "walk"
    /\ UNCHANGED <<uIn, visits, uResult>>
    /\ UNCHANGED <<colorVars, titleVars, specsVars, descVars, imageVars, varVars, scrapeVars,
                   globalsVars>>

\* lines 245-262: one iteration of the while loop
VisitObject ==
    /\ upc = "walk"
    /\ uStack # <<>>
    /\ LET cur == uStack[Len(uStack)]
           rest == SubSeq(uStack, 1, Len(uStack) - 1)
       IN  IF AlreadySeen(cur, uSeen)
           THEN /\ uStack' = rest
                /\ UNCHANGED <<upc, uSeen, visits, uResult>>
           ELSE /\ uSeen' = uSeen \cup {cur}
                /\ visits' = Append(visits, cur)
                /\ IF DescUrlOf(uIn.heap[cur]) # NoneV
                   THEN /\ uResult' = DescUrlOf(uIn.heap[cur])
                        /\ upc' = "done"
                        /\ uStack' = rest
                   ELSE /\ uStack' = rest \o uIn.heap[cur].kids
                        /\ UNCHANGED <<upc, uResult>>
    /\ UNCHANGED <<uIn, bi>>
    /\ UNCHANGED <<colorVars, titleVars, specsVars, descVars, imageVars, varVars, scrapeVars,
                   globalsVars>>

\* line 245: the stack is empty, the while loop ends
BlobExhausted ==
    /\ upc = "walk"
    /\ uStack = <<>>
    /\ upc' = "key"
    /\ UNCHANGED <<uIn, bi, uStack, uSeen, visits, uResult>>
    /\ UNCHANGED <<colorVars, titleVars, specsVars, descVars, imageVars, varVars, scrapeVars,
                   globalsVars>>

\* line 263
ReturnNone ==
    /\ upc = "key"
    /\ bi = Len(uIn.blobs)
    /\ uResult' = NoneV
    /\ upc' = "done"
    /\ UNCHANGED <<uIn, bi, uStack, uSeen, visits>>
    /\ UNCHANGED <<colorVars, titleVars, specsVars, descVars, imageVars, varVars, scrapeVars,
                   globalsVars>>

-----------------------------------------------------------------------------
(* specifications *)

InitColor == ColorStart /\ TitleIdle /\ SpecsIdle /\ DescIdle /\ ImagesIdle /\ VarIdle /\ ScrapeIdle /\ GlobalsIdle /\ SearchIdle
NextColor == PrettifyColor
SpecColor == InitColor /\ [][NextColor]_vars

InitTitle == TitleStart /\ ColorIdle /\ SpecsIdle /\ DescIdle /\ ImagesIdle /\ VarIdle /\ ScrapeIdle /\ GlobalsIdle /\ SearchIdle
NextTitle == PickTitle
SpecTitle == InitTitle /\ [][NextTitle]_vars

InitSpecs == SpecsStart /\ ColorIdle /\ TitleIdle /\ DescIdle /\ ImagesIdle /\ VarIdle /\ ScrapeIdle /\ GlobalsIdle /\ SearchIdle
NextSpecs == CollectSpecs
SpecSpecs == InitSpecs /\ [][NextSpecs]_vars

InitDesc == DescStart /\ ColorIdle /\ TitleIdle /\ SpecsIdle /\ ImagesIdle /\ VarIdle /\ ScrapeIdle /\ GlobalsIdle /\ SearchIdle
NextDesc == BuildCandidates \/ FetchCandidate \/ InlineFallback \/ FinishDescription
SpecDesc == InitDesc /\ [][NextDesc]_vars

InitImages == ImagesStart /\ ColorIdle /\ TitleIdle /\ SpecsIdle /\ DescIdle /\ VarIdle /\ ScrapeIdle /\ GlobalsIdle /\ SearchIdle
NextImages == CollectImages \/ FilterImages \/ UniteImages
SpecImages == InitImages /\ [][NextImages]_vars

InitVar == VarStart /\ ColorIdle /\ TitleIdle /\ SpecsIdle /\ DescIdle /\ ImagesIdle /\ ScrapeIdle /\ GlobalsIdle /\ SearchIdle
NextVar == ExpandMore \/ QueryGroups \/ OpenGroup \/ ClickOption \/ CloseGroup \/ MergeGroups
SpecVar == InitVar /\ [][NextVar]_vars

InitGlobals == GlobalsStart /\ ColorIdle /\ TitleIdle /\ SpecsIdle /\ DescIdle /\ ImagesIdle /\ VarIdle /\ ScrapeIdle /\ SearchIdle
NextGlobals == EvaluateProbe \/ ReturnData
SpecGlobals == InitGlobals /\ [][NextGlobals]_vars

InitSearch == SearchStart /\ ColorIdle /\ TitleIdle /\ SpecsIdle /\ DescIdle /\ ImagesIdle /\ VarIdle /\ ScrapeIdle /\ GlobalsIdle
NextSearch == TakeBlob \/ VisitObject \/ BlobExhausted \/ ReturnNone
SpecSearch == InitSearch /\ [][NextSearch]_vars
\* the interpreter runs the function to its end: the next step is always taken
SpecSearchFair == SpecSearch /\ WF_vars(NextSearch)

InitScrape == ScrapeStart /\ ColorIdle /\ TitleIdle /\ SpecsIdle /\ DescIdle /\ ImagesIdle /\ VarIdle /\ GlobalsIdle /\ SearchIdle
NextScrape ==
    \/ OnResponse \/ Goto \/ WaitNetworkIdle \/ SettlePage \/ ReadPage
    \/ PickTitle
    \/ CallPickImages \/ CollectImages \/ FilterImages \/ ImagesRaised
    \/ CallPickDescription
    \/ BuildCandidates \/ FetchCandidate \/ InlineFallback \/ FinishDescription
    \/ CallCollectVariations
    \/ ExpandMore \/ QueryGroups \/ OpenGroup \/ ClickOption \/ CloseGroup \/ MergeGroups
    \/ VariationsRaised \/ BuildResult \/ CloseAndReturn
SpecScrape == InitScrape /\ [][NextScrape]_vars

-----------------------------------------------------------------------------
(* C6: prettify_color *)

\* a lexicon keyword occurs in the label and the label is at most keyword
\* length + 2 characters long
TightLexiconMatch(name) ==
    LET s == Lower(Strip(name))
    IN  \E i \in 1..Len(replacements) :
            Contains(s, replacements[i][1]) /\ Len(s) <= Len(replacements[i][1]) + 2

LooseRegexMatch(name) ==
    LET s == Lower(Strip(name))
    IN  \E i \in 1..Len(looseColors) : SearchWordEnd(s, looseColors[i][1])

\* C6 (as claimed): a label with no tight lexicon match and no loose regex
\* match is returned with only its surrounding whitespace removed.
C6_UnmatchedReturnedUnchanged ==
    (cpc = "done" /\ ~TightLexiconMatch(cName) /\ ~LooseRegexMatch(cName))
        => cResult = Strip(cName)

-----------------------------------------------------------------------------
(* C7: pick_title *)

\* the title sources in the claimed rank order, as the values they hold
RankedTitleSources(in) ==
    (IF DIsDict(in)
     THEN <<in.f["d.title"], in.f["d.subject"], in.f["d.name"], in.f["d.prodName"]>>
          \o (IF in.pmIsDict THEN <<in.f["pm.title"], in.f["pm.seoTitle"]>> ELSE <<>>)
     ELSE <<>>)
    \o (IF in.dcIsDict THEN <<in.f["dc.title"], in.f["dc.name"], in.f["dc.subject"]>>
        ELSE <<>>)
    \o <<in.f["og:title"], in.f["twitter:title"], in.f["meta:title"], in.f["title"],
         in.f["h1"]>>

\* C7 (as claimed): pick_title returns the first non-empty trimmed string in
\* rank order, and None, never an empty string, when no source holds one.
C7_FirstNonEmptyOrNone ==
    tpc = "done" =>
        /\ tResult # ""
        /\ LET ranked == RankedTitleSources(tIn)
               hits == {i \in 1..Len(ranked) : NonBlankStr(ranked[i])}
           IN  tResult = IF hits = {} THEN NoneV ELSE Strip(ranked[MinOf(hits)])

-----------------------------------------------------------------------------
(* C2: collect_specs_from_dom *)

NoDuplicates(seq) == \A i, j \in 1..Len(seq) : i # j => seq[i] # seq[j]

FirstIndex(seq, x) == MinOf({i \in 1..Len(seq) : seq[i] = x})

\* out holds items of raw only, ordered as their first occurrences in raw
InFirstSeenOrder(out, raw) ==
    /\ \A i \in 1..Len(out) : SeqContains(raw, out[i])
    /\ \A i, j \in 1..Len(out) :
           i < j => FirstIndex(raw, out[i]) <= FirstIndex(raw, out[j])

\* the "key: value" lines of the DOM in document order, for the strategy used
DomSpecLines(in) == IF PrimaryReturns(in) THEN PrimarySpecs(in) ELSE LiSpecs(in.lis)

\* C2 (as claimed): the returned list has no duplicate line and keeps DOM
\* order, whichever strategy produced it.
C2_SpecsDedupedInDomOrder ==
    (spc = "done" /\ sIn.root) =>
        /\ NoDuplicates(sResult)
        /\ InFirstSeenOrder(sResult, DomSpecLines(sIn))

-----------------------------------------------------------------------------
(* C3: the noise threshold of the description *)

\* C3 (as claimed): a description text is accepted only if it is longer than
\* the noise threshold, whether it was fetched or read from the inline block.
C3_DescriptionAboveNoise ==
    desc_text # NoneV => Len(desc_text) > NoiseThreshold

-----------------------------------------------------------------------------
(* C10: the order and the end of the fetches *)

\* the candidate sources in the claimed order, before deduplication
RawCandidates ==
    LET from_globals == try_pick_desc_url_from_globals(dIn.globals)
    IN  (IF from_globals # NoneV THEN <<from_globals>> ELSE <<>>)
        \o IframeUrls(dIn.iframes) \o desc_hits

\* a response that counts as a success with text above the threshold
WinningResponse(resp) ==
    /\ ~resp.raises
    /\ resp.ok
    /\ (resp.html.descId \/ resp.html.detailModule)
    /\ Len(Strip(resp.html.text)) > 40

\* C10: the candidates are the sources deduplicated in order (globals, iframes,
\* network hits); the requests made are a prefix of the candidate list, in its
\* order; the loop asks for a further candidate only while none has won; a
\* fetched description comes from an OK response with a marker and text above
\* the threshold; and the inline block is read only when every candidate was
\* requested and none won.
C10_SequentialFirstWinner ==
    /\ dpc \in {"fetch", "fallback"} =>
          LET raw == RawCandidates
          IN  /\ NoDuplicates(candidate_urls)
              /\ InFirstSeenOrder(candidate_urls, raw)
              /\ \A i \in 1..Len(raw) : raw[i] # "" => SeqContains(candidate_urls, raw[i])
    /\ Len(fetchLog) <= Len(candidate_urls)
    /\ fetchLog = SubSeq(candidate_urls, 1, Len(fetchLog))
    /\ dpc \in {"fetch", "fallback"} => (fetchLog = <<>> \/ ~WinningResponse(lastResp))
    /\ dpc = "fallback" => Len(fetchLog) = Len(candidate_urls)
    /\ dpc \in {"finish", "done"} =>
          \/ /\ fetchLog # <<>>
             /\ WinningResponse(lastResp)
             /\ desc_text = lastResp.html.text
          \/ /\ Len(fetchLog) = Len(candidate_urls)
             /\ fetchLog = <<>> \/ ~WinningResponse(lastResp)
             /\ desc_text \in {NoneV, dIn.inline.text}

\* a candidate won after an earlier one failed, and one more was left untried
C10_Witness ==
    /\ dpc = "done"
    /\ Len(fetchLog) >= 2
    /\ Len(fetchLog) < Len(candidate_urls)
    /\ WinningResponse(lastResp)
    /\ dResult.description_text # NoneV

-----------------------------------------------------------------------------
(* C8: the images of the record *)

\* C8: every URL of the record's images passes is_product_image, no string
\* appears twice, and the order is the first-seen order over what pick_images
\* collected from its sources followed by the description images.
C8_ImagesFilteredUniqueOrdered ==
    ipc = "done" =>
        /\ \A i \in 1..Len(all_images) : IsProductImage(all_images[i])
        /\ NoDuplicates(all_images)
        /\ InFirstSeenOrder(all_images, imgs \o iIn.desc_imgs)
        /\ \A i \in 1..Len(imgs) :
              IsProductImage(imgs[i]) => SeqContains(all_images, imgs[i])
        /\ \A i \in 1..Len(iIn.desc_imgs) : SeqContains(all_images, iIn.desc_imgs[i])

\* a record whose images come from two sources that share a URL, with a
\* rejected URL among the collected ones and a description image at the end
C8_Witness ==
    /\ ipc = "done"
    /\ ~NoDuplicates(imgs)
    /\ \E i \in 1..Len(imgs) : imgs[i] # "" /\ ~IsProductImage(imgs[i])
    /\ Len(all_images) >= 3
    /\ all_images[Len(all_images)] = ImgD
    /\ \E i \in 1..Len(iIn.desc_imgs) : SeqContains(images_main, iIn.desc_imgs[i])

-----------------------------------------------------------------------------
(* C1: an option whose only label is an opaque code *)

\* the option of the iteration that ended last
LatestOption == Options(vIn[gi])[oi - 1]

\* an iteration has ended without raising, for an option whose own label is an
\* opaque code, and neither the summary nor the thumbnail nor the nested image
\* gave a label
OpaqueOnly ==
    /\ vpc \in {"option", "close"}
    /\ oi > 1
    /\ ~lastOption.raised
    /\ lastOption.gave = {}
    /\ IsOpaqueCode(OwnLabel(LatestOption))
    /\ ImageLabel(LatestOption) = NoneV

\* C1 (as claimed): for an option whose only label is an opaque code, with no
\* label from the summary, the thumbnail or the nested image, no value is
\* added to the group's value list.
C1_OpaqueOptionOmitted == OpaqueOnly => ~lastOption.added

\* C1 (amended): for such an option the opaque code itself is the label: its
\* normalized form is in the group's value list after the iteration, as the
\* last value when the iteration added one.
C1_OpaqueCodeKept ==
    OpaqueOnly =>
        LET pretty == PrettyLabel(OwnLabel(LatestOption))
        IN  /\ lastOption.label = OwnLabel(LatestOption)
            /\ SeqContains(values, pretty)
            /\ lastOption.added => values[Len(values)] = pretty

\* the opaque code of such an option was added to a list that holds an
\* earlier value
C1_Witness ==
    /\ OpaqueOnly
    /\ lastOption.added
    /\ Len(values) = 2
    /\ IsOpaqueCode(values[2])

-----------------------------------------------------------------------------
(* C5: failures while a container or an option is processed *)

\* C5 (as claimed): a failure while a container's name is resolved or its
\* options are listed is caught and skipped, so the function never raises
\* because of it.
C5_GroupFailureSkipped == ~(vpc = "raised" /\ vErr \in {"name", "options"})

-----------------------------------------------------------------------------
(* C9: the groups returned *)

\* the values of the labels resolved for containers named n, in click order
RECURSIVE LabelsOf(_, _)
LabelsOf(log, n) ==
    IF log = <<>> THEN <<>>
    ELSE (IF Head(log).name = n THEN <<Head(log).value>> ELSE <<>>) \o LabelsOf(Tail(log), n)

\* C9: in the returned list no two groups have the same name, no group has an
\* empty value list, no value appears twice in a group, a group's values are
\* the labels resolved for the containers of that name in first-click order,
\* and every resolved label is in the group of its container's name.  On a page
\* with a container "Color" of 3 options and a container "Size" of 2, when all
\* five iterations resolve a label, the list is two groups, "Color" with 3
\* values and "Size" with 2.
C9_GroupsMergedByName ==
    vpc = "done" =>
        /\ \A i, j \in 1..Len(vResult) : i # j => vResult[i].name # vResult[j].name
        /\ \A i \in 1..Len(vResult) :
              /\ vResult[i].values # <<>>
              /\ NoDuplicates(vResult[i].values)
              /\ InFirstSeenOrder(vResult[i].values, LabelsOf(clicks, vResult[i].name))
        /\ \A k \in 1..Len(clicks) :
              \E i \in 1..Len(vResult) :
                  /\ vResult[i].name = clicks[k].name
                  /\ SeqContains(vResult[i].values, clicks[k].value)
        /\ (vIn = <<ColorGroup, SizeGroup>> /\ Len(clicks) = 5) =>
              /\ Len(vResult) = 2
              /\ vResult[1].name = "Color" /\ Len(vResult[1].values) = 3
              /\ vResult[2].name = "Size" /\ Len(vResult[2].values) = 2

\* two containers of one name, merged into one group without the value that
\* both resolved
C9_Witness ==
    /\ vpc = "done"
    /\ Len(results) = 2
    /\ results[1].name = results[2].name
    /\ \E i \in 1..Len(results[2].values) : SeqContains(results[1].values, results[2].values[i])
    /\ Len(vResult) = 1
    /\ Len(vResult[1].values) = 3

-----------------------------------------------------------------------------
(* C4: a failure after the resolvers *)

\* title, images, description and specs have been resolved
FieldsResolved == tpc = "done" /\ ipc = "done" /\ dpc = "done"

\* C4 (as claimed): once title, images, description and specs are resolved, a
\* failure of a later stage does not keep scrape_text_fields from returning
\* the record: the function never raises from then on.
C4_PartialResultKept == FieldsResolved => rpc # "raised"

-----------------------------------------------------------------------------
(* C11: the probes of get_global_jsons *)

\* the names under which data holds a value
KeptNames == {jData[i].js : i \in 1..Len(jData)}

\* C11: when get_global_jsons returns, every probe of JS_SNIFFERS was evaluated
\* exactly once and in order, a probe that raised or gave null is not in the
\* mapping, and every probe that gave a non-null value is in the mapping.
C11_NonNullProbesKept ==
    jpc = "done" =>
        /\ probed = JS_SNIFFERS
        /\ \A js \in DOMAIN jIn :
              /\ jIn[js] \in {RaisesV, NoneV} => js \notin KeptNames
              /\ jIn[js] \notin {RaisesV, NoneV} => js \in KeptNames

-----------------------------------------------------------------------------
(* C13: the search for the description URL ends *)

\* the dicts the search can reach from the blobs that are dicts
Reachable ==
    ReachFrom(uIn.heap, {uIn.blobs[i] : i \in 1..Len(uIn.blobs)} \ {0})

\* no object is examined twice
VisitedOnce == \A i, j \in 1..Len(visits) : visits[i] = visits[j] => i = j

\* what is returned is None or an absolute URL that a recognized field of a
\* reachable dict holds
ReturnsRecognizedUrl ==
    upc = "done" =>
        \/ uResult = NoneV
        \/ /\ IsAbsoluteUrl(uResult)
           /\ \E i \in Reachable, k \in DescUrlKeySet : uIn.heap[i].f[k] = uResult

\* C13: on every finite structure, cyclic ones included,
\* try_pick_desc_url_from_globals examines each object at most once, returns
\* None or an absolute http(s) URL held in a recognized description field of
\* a reachable object, and terminates.
C13_SearchTerminates ==
    /\ [](VisitedOnce /\ ReturnsRecognizedUrl)
    /\ <>(upc = "done")

\* dicts 1 and 3 hold each other: 3 pushed 1 again, which the seen test
\* dropped before 2 was examined and its URL returned
C13_Witness ==
    /\ upc = "done"
    /\ visits = <<1, 3, 2>>
    /\ SeqContains(uIn.heap[1].kids, 3)
    /\ SeqContains(uIn.heap[3].kids, 1)
    /\ uResult = "https://c/desc"

-----------------------------------------------------------------------------
(* C12: the elements of the image lists *)

\* the lists pick_images found under a recognized key of runParams, DCData
\* and the store: d[key] when it is a list, else the lists under d[key]
StructuredListsRead ==
    {"d." \o k : k \in SeqToSet(ImageKeys)}
    \cup {"d." \o k \o "." \o k2 : k \in {j \in SeqToSet(ImageKeys) : ~IsListAt(iIn.f, j)},
                                   k2 \in SeqToSet(NestedImageKeys)}
    \cup {"dc." \o k : k \in SeqToSet(DcImageKeys)}
    \cup SeqToSet(AerImagePaths)

\* the strings an element offers: itself, or its url, image and src
Exposed(x) ==
    IF x.kind = "str" THEN {x.s}
    ELSE IF x.kind = "dict" THEN {v \in {x.url, x.image, x.src} : IsStr(v)}
    ELSE {}

\* C12 (as claimed): pick_images never fails on the shape of an element, and
\* of every element of a structured list that is a string or an object with a
\* url, image or src string it has collected a string; elements of any other
\* shape add nothing.
C12_OddShapesSkipped ==
    /\ ipc # "raised"
    /\ ipc \in {"filter", "union", "done"} =>
          /\ \A s \in StructuredListsRead : \A i \in 1..Len(iIn.f[s]) :
                Exposed(iIn.f[s][i]) # {} =>
                    Exposed(iIn.f[s][i]) \cap SeqToSet(imgs) # {}
          /\ \A i \in 1..Len(imgs) : IsStr(imgs[i])

-----------------------------------------------------------------------------
(* C14: the responses recorded and the description candidates *)

\* pick_description_and_specs has been called
DescriptionStarted == dpc # "idle"

\* the candidate list has been built
CandidatesBuilt == dpc \in {"fetch", "fallback", "finish", "done"}

\* C14: description resolution starts only once the network-idle wait is over,
\* and the wait never fails the scrape; a URL the handler recorded stays
\* recorded, so every URL recorded before the wait ended is in desc_hits when
\* the candidate list is built, and that list holds all of them; once built
\* the list never changes and only its URLs are requested, whatever the
\* handler records afterwards.
C14_HitsBeforeBuildAreCandidates ==
    /\ [](DescriptionStarted => rpc \notin {"goto", "wait"})
    /\ [][rpc = "wait" => rpc' \in {"wait", "settle"}]_vars
    /\ [][/\ Len(desc_hits) <= Len(desc_hits')
          /\ SubSeq(desc_hits', 1, Len(desc_hits)) = desc_hits]_vars
    /\ [][(dpc = "build" /\ dpc' # "build") =>
              SeqToSet(desc_hits) \subseteq SeqToSet(candidate_urls')]_vars
    /\ [][CandidatesBuilt => candidate_urls' = candidate_urls]_vars
    /\ [](CandidatesBuilt => SeqToSet(fetchLog) \subseteq SeqToSet(candidate_urls))

\* a page without description URL or iframe: the URL recorded before the list
\* was built is the one candidate and the one request, the URL recorded
\* during that request is in desc_hits and no candidate
C14_Witness ==
    /\ rpc = "returned"
    /\ Len(desc_hits) = 2
    /\ desc_hits[1] # desc_hits[2]
    /\ candidate_urls = <<desc_hits[1]>>
    /\ fetchLog = candidate_urls

====
